---- MODULE Spec2Model ----
(***************************************************************************)
(* A model of the sync engine of ShopifyPriceUpdateSync:                   *)
(*   - SyncService (startSync, stopSync, clearSession, performSync) with   *)
(*     the storage rows it reads and writes, and                           *)
(*   - the rate-limited request queue of ShopifyService and                *)
(*     GoogleSheetsService (makeRequest / queueRequest, processQueue).     *)
(* Every await of the code is a step boundary: between two steps of one    *)
(* task any other task may run.                                            *)
(***************************************************************************)
EXTENDS Integers, Sequences, FiniteSets, TLC

\* ------------------------------------------------------------------ bounds
MaxStarts == 2      \* startSync calls made in one behaviour
MaxStops == 1       \* stopSync / clearSession calls made in one behaviour
MaxFaults == 1      \* external calls that throw in one behaviour
MaxRuns == 1        \* SpecRun: startSync calls that pass the flag test
MaxRunStops == 1    \* SpecRun: stopSync / clearSession calls
MaxRunFaults == 1   \* SpecRun: external calls that throw
MaxLiveRuns == 1     \* SpecLive: startSync calls that pass the flag test
MaxLiveStops == 1    \* SpecLive: stopSync calls
MaxLiveFaults == 1   \* SpecLive: calls that throw outside the catch blocks
MaxDataRows == 1     \* data rows (below the header) of the sheet getSheetData reads
MaxOps == 3         \* operations enqueued on a client's queue in one behaviour
TickMs == 100       \* the clock advances in steps of this many milliseconds
MaxTime == 2500     \* the clock stops here

PageSize == 2       \* products on a full page of the listing (limit=250 in the code)
MaxProducts == 4    \* products in the shop's listing
MaxFinds == 2       \* findVariantBySku calls made on one catalog client
MaxPageFaults == 1  \* products requests that throw in one behaviour

MaxSheetRows == 3   \* rows (row 1 included) of the sheet whose variant ids are written back
MaxHeaderCalls == 3  \* updateSheetHeader calls made on one sheet
MaxHeaderFaults == 1 \* requests of updateSheetHeader that throw
MaxOtherOps == 2     \* SpecStores: startSync, stopSync and clearSession calls for store s2
\* ------------------------------------------------------------ environment
Stores == {"s1", "s2"}
\* the sheet configured for each store, and one id no sheet row has
SheetOf == [s1 |-> "g1", s2 |-> "g2"]
KnownSheets == {"g1", "g2"}
\* the rows getSheetData returns for each sheet (SKUs, in spreadsheet order)
SheetRows == [g1 |-> <<"A", "B", "C">>, g2 |-> <<"A", "B">>]
\* SKUs that have a variant in the catalog
Catalog == {"A", "C"}
\* messages of the errors a catalog call may throw
Msgs == {"e429", "e500"}

VARIABLES
    activeSyncs,   \* SyncService.activeSyncs: store -> "absent" | "true" | "false"
    sessions,      \* storage: the sync_sessions rows, in creation order (index = id)
    logs,          \* storage: the sync_logs rows of each session, in creation order
    events,        \* the messages broadcastUpdate sent for each session, in order
    cleared,       \* the store-level sync_complete messages clearSession sent
    calls,         \* the startSync calls in flight (past the flag test, not yet returned)
    nStarts,       \* history: number of startSync calls that passed the flag test
    refused,       \* history: the <<store, error>> pairs startSync has thrown
    stops,         \* the stopSync / clearSession calls in flight
    nStops,        \* history: number of stopSync / clearSession calls made
    loops,         \* performSync: one task per session, with its local variables
    stopReq,       \* history: a stop or clear for the store arrived during the run
    faults,        \* history: number of external calls that threw so far
    client,        \* which client instance the queue below belongs to
    requestQueue,  \* a client's requestQueue: labels of the pending operations
    isProcessingQueue, \* a client's isProcessingQueue
    drain,         \* the drain loop of processQueue: its position and item in hand
    activeDrains,  \* history: processQueue calls that are inside their while loop
    executed,      \* history: labels in the order executeRequest started them
    startedAt,     \* history: the time each executed operation was started at
    enqueued,      \* history: number of operations enqueued so far
    settled,       \* how each operation's promise stands: pending, resolved, rejected
    now,           \* the clock, in milliseconds
    sheetValues,   \* the cell rows the spreadsheet API returned for the range A:D
    sheetRead,     \* getSheetData has returned
    sheetData,     \* the rows getSheetData returned
    call,          \* the client method the run's loop is awaiting, and its requests
    productsLoaded, \* ShopifyService.productsLoaded of the run's catalog client
    allProducts,   \* ShopifyService.allProducts: the products pushed so far
    shop,          \* the shop's product listing: for each product the SKUs of its variants
    finds,         \* the findVariantBySku calls made on the catalog client, in call order
    fetched,       \* history: the products pages requested, in request order
    answered,      \* how many of the requested pages have returned or thrown
    lastUpdate,    \* the last updateVariantPrice call: its arguments and request body
    remote,        \* the shop's variants: price and compare_at_price, as strings
    headerCalls,   \* the updateSheetHeader calls made on the sheets client, in call order
    rowCalls       \* history: the client calls performSync made for its rows, in call order

orchVars == <<activeSyncs, sessions, logs, events, cleared, calls, nStarts, refused, stops,
              nStops, loops, stopReq, faults>>
queueVars == <<client, requestQueue, isProcessingQueue, drain, activeDrains, executed, startedAt,
               enqueued, settled, now>>
sheetVars == <<sheetValues, sheetRead, sheetData>>
cacheVars == <<allProducts, shop, finds, fetched, answered>>
writeVars == <<lastUpdate, remote>>
callVars == <<call, productsLoaded, cacheVars, writeVars, headerCalls, rowCalls>>
clientVars == <<queueVars, sheetVars, callVars>>
vars == <<orchVars, queueVars, sheetVars, callVars>>

\* a sequence without its k-th element
RemoveAt(q, k) == SubSeq(q, 1, k - 1) \o SubSeq(q, k + 1, Len(q))

\* Map.get(storeId) is truthy only for the value true (absent gives undefined)
Truthy(v) == v = "true"

\* ---------------------------------------------------------------- storage
NewSession(st, sh) ==
    [storeId |-> st, sheetId |-> sh, status |-> "running", totalSkus |-> 0,
     processedSkus |-> 0, updatedSkus |-> 0, notFoundSkus |-> 0, errorCount |-> 0]

\* storage.createSyncSession: insert one row, its id is its position
createSyncSession(ss, st, sh) == Append(ss, NewSession(st, sh))

\* storage.updateSyncSession: set the given fields of row id, keep the others
updateSyncSession(ss, id, fields) ==
    [ss EXCEPT ![id] = [f \in DOMAIN ss[id] |->
                            IF f \in DOMAIN fields THEN fields[f] ELSE ss[id][f]]]

\* storage.getCurrentSyncSession: the latest started running row of the store, 0 if none
getCurrentSyncSession(ss, st) ==
    LET running == {id \in DOMAIN ss : ss[id].storeId = st /\ ss[id].status = "running"}
    IN IF running = {} THEN 0 ELSE CHOOSE id \in running : \A o \in running : o <= id

\* storage.createSyncLog: append one row result to the session's logs
createSyncLog(lg, id, entry) == [lg EXCEPT ![id] = Append(@, entry)]

\* broadcastUpdate of a message that carries the session id
broadcastUpdate(ev, id, msg) == [ev EXCEPT ![id] = Append(@, msg)]

\* ------------------------------------------------------ SyncService.startSync
NoLoop == [pc |-> "none", store |-> "s1", sheet |-> "g1", rows |-> <<>>, i |-> 1,
           processedCount |-> 0, updatedCount |-> 0, notFoundCount |-> 0,
           errorCount |-> 0, err |-> "", final |-> ""]

\* the activeSyncs.get(storeId) test at the head of startSync
AlreadyRunning(st) == Truthy(activeSyncs[st])

\* (mutant) the rejected call resets the flag before it throws
StartSyncRejectedResets(st, sh) ==
    /\ AlreadyRunning(st)
    /\ refused' = refused \cup {<<st, "AlreadyRunning">>}
    /\ activeSyncs' = [activeSyncs EXCEPT ![st] = "absent"]
    /\ UNCHANGED <<sessions, logs, events, cleared, calls, nStarts, stops,
                   nStops, loops, stopReq, faults>>
    /\ UNCHANGED clientVars

\* startSync finds the flag set: throws 'Sync already running for this store'
StartSyncRejected(st, sh) ==
    /\ AlreadyRunning(st)
    /\ refused' = refused \cup {<<st, "AlreadyRunning">>}
    /\ UNCHANGED <<activeSyncs, sessions, logs, events, cleared, calls, nStarts, stops,
                   nStops, loops, stopReq, faults>>
    /\ UNCHANGED clientVars

\* startSync passes the flag test and suspends at storage.getStore / getGoogleSheet
StartSyncBegin(st, sh) ==
    /\ ~AlreadyRunning(st)
    /\ calls' = Append(calls, [store |-> st, sheet |-> sh, pc |-> "loading", sid |-> 0])
    /\ nStarts' = nStarts + 1
    /\ UNCHANGED <<activeSyncs, sessions, logs, events, cleared, stops, loops, stopReq, faults, refused, nStops>>
    /\ UNCHANGED clientVars

\* the configuration was read and the sheet is missing: throws 'Store or sheet not found'
StartSyncNotFound(c) ==
    /\ c \in DOMAIN calls
    /\ calls[c].pc = "loading"
    /\ calls[c].sheet \notin KnownSheets
    /\ calls' = RemoveAt(calls, c)
    /\ refused' = refused \cup {<<calls[c].store, "NotFound">>}
    /\ UNCHANGED <<activeSyncs, sessions, logs, events, cleared, stops, loops, stopReq,
                   faults, nStarts, nStops>>
    /\ UNCHANGED clientVars

\* the configuration was read; storage.createSyncSession inserts the running row
StartSyncCreate(c) ==
    /\ c \in DOMAIN calls
    /\ calls[c].pc = "loading"
    /\ calls[c].sheet \in KnownSheets
    /\ sessions' = createSyncSession(sessions, calls[c].store, calls[c].sheet)
    /\ logs' = Append(logs, <<>>)
    /\ events' = Append(events, <<>>)
    /\ loops' = Append(loops, NoLoop)
    /\ stopReq' = Append(stopReq, FALSE)
    /\ calls' = [calls EXCEPT ![c].pc = "creating", ![c].sid = Len(sessions) + 1]
    /\ UNCHANGED <<activeSyncs, cleared, stops, faults, refused, nStarts, nStops>>
    /\ UNCHANGED clientVars

\* (mutant) the loop is launched without the flag being set
StartSyncLaunchNoFlag(c) ==
    /\ c \in DOMAIN calls
    /\ calls[c].pc = "creating"
    /\ loops' = [loops EXCEPT ![calls[c].sid] =
                    [NoLoop EXCEPT !.pc = "header", !.store = calls[c].store,
                                   !.sheet = calls[c].sheet]]
    /\ calls' = RemoveAt(calls, c)
    /\ UNCHANGED <<activeSyncs, sessions, logs, events, cleared, stops, stopReq, faults,
                   refused, nStarts, nStops>>
    /\ UNCHANGED clientVars

\* startSync resumes with the session: sets the flag, launches performSync, returns
\* the id. performSync runs up to its first await, the header update.
StartSyncLaunch(c) ==
    /\ c \in DOMAIN calls
    /\ calls[c].pc = "creating"
    /\ activeSyncs' = [activeSyncs EXCEPT ![calls[c].store] = "true"]
    /\ loops' = [loops EXCEPT ![calls[c].sid] =
                    [NoLoop EXCEPT !.pc = "header", !.store = calls[c].store,
                                   !.sheet = calls[c].sheet]]
    /\ calls' = RemoveAt(calls, c)
    /\ UNCHANGED <<sessions, logs, events, cleared, stops, stopReq, faults, refused, nStarts, nStops>>
    /\ UNCHANGED clientVars

\* ------------------------------------- SyncService.stopSync and clearSession
\* the positions of a loop in which it is handling a row
RowPcs == {"find", "update", "logSuccess", "writeback", "logNotFound", "logError",
           "persist", "pause"}

\* the positions of a loop before it has left the for loop
RunningPcs == {"header", "getData", "setTotal"} \cup RowPcs

\* the runs of a store that a stop request issued now falls into: the Run is
\* running in storage and its loop has not decided its final status yet
ActiveRuns(st) ==
    {s \in DOMAIN sessions : /\ sessions[s].storeId = st
                             /\ sessions[s].status = "running"
                             /\ loops[s].pc \in RunningPcs}

\* (mutant) the stop request clears the flag of every store
StopSyncCallAllStores(st, kind) ==
    /\ activeSyncs' = [s \in Stores |-> "false"]
    /\ stops' = Append(stops, [store |-> st, kind |-> kind, pc |-> "get", target |-> 0])
    /\ nStops' = nStops + 1
    /\ stopReq' = [s \in DOMAIN stopReq |-> stopReq[s] \/ s \in ActiveRuns(st)]
    /\ UNCHANGED <<sessions, logs, events, cleared, calls, loops, faults, refused, nStarts>>
    /\ UNCHANGED clientVars

\* stopSync / clearSession: clear the flag, then suspend at getCurrentSyncSession
StopSyncCall(st, kind) ==
    /\ activeSyncs' = [activeSyncs EXCEPT ![st] = "false"]
    /\ stops' = Append(stops, [store |-> st, kind |-> kind, pc |-> "get", target |-> 0])
    /\ nStops' = nStops + 1
    /\ stopReq' = [s \in DOMAIN stopReq |-> stopReq[s] \/ s \in ActiveRuns(st)]
    /\ UNCHANGED <<sessions, logs, events, cleared, calls, loops, faults, refused, nStarts>>
    /\ UNCHANGED clientVars

\* getCurrentSyncSession answers; with no running row stopSync returns and
\* clearSession broadcasts its sync_complete and returns
StopGet(k) ==
    /\ k \in DOMAIN stops
    /\ stops[k].pc = "get"
    /\ LET cur == getCurrentSyncSession(sessions, stops[k].store) IN
         IF cur # 0
         THEN /\ stops' = [stops EXCEPT ![k].pc = "upd", ![k].target = cur]
              /\ UNCHANGED cleared
         ELSE /\ stops' = RemoveAt(stops, k)
              /\ cleared' = IF stops[k].kind = "clear"
                            THEN [cleared EXCEPT ![stops[k].store] = @ + 1]
                            ELSE cleared
    /\ UNCHANGED <<activeSyncs, sessions, logs, events, calls, loops, stopReq, faults, refused, nStarts, nStops>>
    /\ UNCHANGED clientVars

\* the row found running is written 'stopped'; stopSync has nothing left to do,
\* clearSession has its broadcast
StopUpd(k) ==
    /\ k \in DOMAIN stops
    /\ stops[k].pc = "upd"
    /\ sessions' = updateSyncSession(sessions, stops[k].target, [status |-> "stopped"])
    /\ stops' = IF stops[k].kind = "clear" THEN [stops EXCEPT ![k].pc = "ret"]
                 ELSE RemoveAt(stops, k)
    /\ UNCHANGED <<activeSyncs, logs, events, cleared, calls, loops, stopReq, faults, refused, nStarts, nStops>>
    /\ UNCHANGED clientVars

\* (mutant) clearSession returns after its write without the broadcast
StopReturnSilent(k) ==
    /\ k \in DOMAIN stops
    /\ stops[k].pc = "ret"
    /\ stops' = RemoveAt(stops, k)
    /\ UNCHANGED <<cleared, activeSyncs, sessions, logs, events, calls, loops, stopReq, faults,
                   refused, nStarts, nStops>>
    /\ UNCHANGED clientVars

\* clearSession resumes after its write and broadcasts sync_complete for the store
StopReturn(k) ==
    /\ k \in DOMAIN stops
    /\ stops[k].pc = "ret"
    /\ stops' = RemoveAt(stops, k)
    /\ cleared' = [cleared EXCEPT ![stops[k].store] = @ + 1]
    /\ UNCHANGED <<activeSyncs, sessions, logs, events, calls, loops, stopReq, faults, refused, nStarts, nStops>>
    /\ UNCHANGED clientVars

\* ------------------------------------------------- SyncService.performSync
\* ShopifyService.findVariantBySku on the loaded catalog: the variant's id, or "null"
findVariantBySku(sku) == IF sku \in Catalog THEN sku ELSE "null"

\* (mutant) processedCount++ left inside the try block: an error row is not counted
CountRowInsideTry(l, kind) ==
    [l EXCEPT !.processedCount = IF kind = "error" THEN @ ELSE @ + 1,
              !.updatedCount = IF kind = "success" THEN @ + 1 ELSE @,
              !.notFoundCount = IF kind = "not_found" THEN @ + 1 ELSE @,
              !.errorCount = IF kind = "error" THEN @ + 1 ELSE @]

\* (mutant) every row is counted as updated
CountRowAsUpdated(l, kind) ==
    [l EXCEPT !.processedCount = @ + 1, !.updatedCount = @ + 1]

\* the local counters after a row of the given outcome: that outcome's counter and
\* processedCount are incremented
CountRow(l, kind) ==
    [l EXCEPT !.processedCount = @ + 1,
              !.updatedCount = IF kind = "success" THEN @ + 1 ELSE @,
              !.notFoundCount = IF kind = "not_found" THEN @ + 1 ELSE @,
              !.errorCount = IF kind = "error" THEN @ + 1 ELSE @]

\* (mutant) the loop finalizes with completed whatever the flag says
FinalStatusCompleted(st) == "completed"

\* the status the loop finalizes with: activeSyncs.get(store.id) ? completed : stopped
FinalStatus(st) == IF Truthy(activeSyncs[st]) THEN "completed" ELSE "stopped"

\* the head of the for loop, run by the task when it resumes: with a row left and the
\* flag set it broadcasts sync_progress and calls findVariantBySku; otherwise it
\* leaves the loop and issues the final status write
AtRowCheck(s, l) ==
    IF l.i <= Len(l.rows) /\ Truthy(activeSyncs[l.store])
    THEN /\ loops' = [loops EXCEPT ![s] = [l EXCEPT !.pc = "find"]]
         /\ events' = broadcastUpdate(events, s,
                [type |-> "sync_progress", sku |-> l.rows[l.i], n |-> l.processedCount,
                 info |-> ""])
    ELSE /\ loops' = [loops EXCEPT ![s] =
                        [l EXCEPT !.pc = "finalWrite", !.final = FinalStatus(l.store)]]
         /\ UNCHANGED events

\* (mutant) no try block around the row: a throw reaches the outer catch
OnRowErrorAborts(l, m) == [l EXCEPT !.pc = "failWrite", !.err = m]

\* a throw inside the row's try block: the catch logs the row as an error
OnRowError(l, m) == [l EXCEPT !.pc = "logError", !.err = m]

\* (mutant) the outer catch swallows the error and the run is finalized as usual
OnFatalSwallowed(l, m) == [l EXCEPT !.pc = "finalWrite", !.final = "stopped", !.err = m]

\* a throw outside the row's try block: the outer catch writes status failed
OnFatal(l, m) == [l EXCEPT !.pc = "failWrite", !.err = m]

\* googleSheets.updateSheetHeader returned
HeaderOk(s) ==
    /\ loops[s].pc = "header"
    /\ loops' = [loops EXCEPT ![s].pc = "getData"]
    /\ UNCHANGED <<activeSyncs, sessions, logs, events, cleared, calls, stops, stopReq, faults, refused, nStarts, nStops>>
    /\ UNCHANGED clientVars

\* googleSheets.updateSheetHeader threw (always 'Failed to update sheet header')
HeaderThrows(s) ==
    /\ loops[s].pc = "header"
    /\ faults' = faults + 1
    /\ loops' = [loops EXCEPT ![s] = OnFatal(@, "Failed to update sheet header")]
    /\ UNCHANGED <<activeSyncs, sessions, logs, events, cleared, calls, stops, stopReq, refused, nStarts, nStops>>
    /\ UNCHANGED clientVars

\* googleSheets.getSheetData returned the rows; the total is sent to storage
GetDataOk(s) ==
    /\ loops[s].pc = "getData"
    /\ loops' = [loops EXCEPT ![s].pc = "setTotal", ![s].rows = SheetRows[loops[s].sheet]]
    /\ UNCHANGED <<activeSyncs, sessions, logs, events, cleared, calls, stops, stopReq, faults, refused, nStarts, nStops>>
    /\ UNCHANGED clientVars

\* googleSheets.getSheetData threw
GetDataThrows(s, m) ==
    /\ loops[s].pc = "getData"
    /\ faults' = faults + 1
    /\ loops' = [loops EXCEPT ![s] = OnFatal(@, m)]
    /\ UNCHANGED <<activeSyncs, sessions, logs, events, cleared, calls, stops, stopReq, refused, nStarts, nStops>>
    /\ UNCHANGED clientVars

\* updateSyncSession({totalSkus}) is done; the loop reaches its first row check
SetTotal(s) ==
    /\ loops[s].pc = "setTotal"
    /\ sessions' = updateSyncSession(sessions, s, [totalSkus |-> Len(loops[s].rows)])
    /\ AtRowCheck(s, loops[s])
    /\ UNCHANGED <<activeSyncs, logs, cleared, calls, stops, stopReq, faults, refused, nStarts, nStops>>
    /\ UNCHANGED clientVars

\* findVariantBySku returned: not found -> createSyncLog(not_found) is issued,
\* found -> updateVariantPrice is issued
FindOk(s) ==
    /\ loops[s].pc = "find"
    /\ loops' = [loops EXCEPT ![s].pc =
                    IF findVariantBySku(loops[s].rows[loops[s].i]) = "null"
                    THEN "logNotFound" ELSE "update"]
    /\ UNCHANGED <<activeSyncs, sessions, logs, events, cleared, calls, stops, stopReq, faults, refused, nStarts, nStops>>
    /\ UNCHANGED clientVars

\* findVariantBySku threw
FindThrows(s, m) ==
    /\ loops[s].pc = "find"
    /\ faults' = faults + 1
    /\ loops' = [loops EXCEPT ![s] = OnRowError(@, m)]
    /\ UNCHANGED <<activeSyncs, sessions, logs, events, cleared, calls, stops, stopReq, refused, nStarts, nStops>>
    /\ UNCHANGED clientVars

\* updateVariantPrice returned: createSyncLog(success) is issued
UpdateOk(s) ==
    /\ loops[s].pc = "update"
    /\ loops' = [loops EXCEPT ![s].pc = "logSuccess"]
    /\ UNCHANGED <<activeSyncs, sessions, logs, events, cleared, calls, stops, stopReq, faults, refused, nStarts, nStops>>
    /\ UNCHANGED clientVars

\* updateVariantPrice threw
UpdateThrows(s, m) ==
    /\ loops[s].pc = "update"
    /\ faults' = faults + 1
    /\ loops' = [loops EXCEPT ![s] = OnRowError(@, m)]
    /\ UNCHANGED <<activeSyncs, sessions, logs, events, cleared, calls, stops, stopReq, refused, nStarts, nStops>>
    /\ UNCHANGED clientVars

\* (mutant) the row's sync_log message is not broadcast
RowDoneSilent(s, kind) ==
    /\ loops' = [loops EXCEPT ![s] = [CountRow(@, kind) EXCEPT !.pc = "persist"]]
    /\ UNCHANGED events

\* the row's counters are final: sync_log is broadcast and the counters are sent to
\* storage
RowDone(s, kind) ==
    /\ loops' = [loops EXCEPT ![s] = [CountRow(@, kind) EXCEPT !.pc = "persist"]]
    /\ events' = broadcastUpdate(events, s,
            [type |-> "sync_log", sku |-> loops[s].rows[loops[s].i], n |-> 0, info |-> kind])

\* createSyncLog(success) is done; the variant id write-back is issued
LogSuccess(s) ==
    /\ loops[s].pc = "logSuccess"
    /\ logs' = createSyncLog(logs, s, [sku |-> loops[s].rows[loops[s].i],
                                        status |-> "success", errorMessage |-> ""])
    /\ loops' = [loops EXCEPT ![s].pc = "writeback"]
    /\ UNCHANGED <<activeSyncs, sessions, events, cleared, calls, stops, stopReq, faults, refused, nStarts, nStops>>
    /\ UNCHANGED clientVars

\* googleSheets.updateVariantId returned after its write was made
Writeback(s) ==
    /\ loops[s].pc = "writeback"
    /\ RowDone(s, "success")
    /\ UNCHANGED <<activeSyncs, sessions, logs, cleared, calls, stops, stopReq, faults, refused, nStarts, nStops>>
    /\ UNCHANGED clientVars

\* (mutant) updateVariantId lets the failure of its queued write through
WritebackFailsThrows(s) ==
    /\ loops[s].pc = "writeback"
    /\ faults' = faults + 1
    /\ loops' = [loops EXCEPT ![s] = OnRowError(@, "e500")]
    /\ UNCHANGED <<activeSyncs, sessions, logs, events, cleared, calls, stops, stopReq, refused, nStarts, nStops>>
    /\ UNCHANGED clientVars

\* the queued write of googleSheets.updateVariantId was rejected: its catch logs
\* the error and the call returns as if the write had been made
WritebackFails(s) ==
    /\ loops[s].pc = "writeback"
    /\ faults' = faults + 1
    /\ RowDone(s, "success")
    /\ UNCHANGED <<activeSyncs, sessions, logs, cleared, calls, stops, stopReq, refused, nStarts, nStops>>
    /\ UNCHANGED clientVars

\* createSyncLog(not_found) is done
LogNotFound(s) ==
    /\ loops[s].pc = "logNotFound"
    /\ logs' = createSyncLog(logs, s, [sku |-> loops[s].rows[loops[s].i],
                                        status |-> "not_found", errorMessage |-> ""])
    /\ RowDone(s, "not_found")
    /\ UNCHANGED <<activeSyncs, sessions, cleared, calls, stops, stopReq, faults, refused, nStarts, nStops>>
    /\ UNCHANGED clientVars

\* createSyncLog(error) of the catch block is done
LogError(s) ==
    /\ loops[s].pc = "logError"
    /\ logs' = createSyncLog(logs, s, [sku |-> loops[s].rows[loops[s].i],
                                        status |-> "error", errorMessage |-> loops[s].err])
    /\ RowDone(s, "error")
    /\ UNCHANGED <<activeSyncs, sessions, cleared, calls, stops, stopReq, faults, refused, nStarts, nStops>>
    /\ UNCHANGED clientVars

\* updateSyncSession(counters) is done; the 100 ms pause starts
Persist(s) ==
    /\ loops[s].pc = "persist"
    /\ sessions' = updateSyncSession(sessions, s,
            [processedSkus |-> loops[s].processedCount,
             updatedSkus |-> loops[s].updatedCount,
             notFoundSkus |-> loops[s].notFoundCount,
             errorCount |-> loops[s].errorCount])
    /\ loops' = [loops EXCEPT ![s].pc = "pause"]
    /\ UNCHANGED <<activeSyncs, logs, events, cleared, calls, stops, stopReq, faults, refused, nStarts, nStops>>
    /\ UNCHANGED clientVars

\* the pause is over: the loop moves to the next row and its check
Pause(s) ==
    /\ loops[s].pc = "pause"
    /\ AtRowCheck(s, [loops[s] EXCEPT !.i = @ + 1])
    /\ UNCHANGED <<activeSyncs, sessions, logs, cleared, calls, stops, stopReq, faults, refused, nStarts, nStops>>
    /\ UNCHANGED clientVars

\* the final updateSyncSession({status}) reaches storage
FinalWrite(s) ==
    /\ loops[s].pc = "finalWrite"
    /\ sessions' = updateSyncSession(sessions, s, [status |-> loops[s].final])
    /\ loops' = [loops EXCEPT ![s].pc = "finalDone"]
    /\ UNCHANGED <<activeSyncs, logs, events, cleared, calls, stops, stopReq, faults, refused, nStarts, nStops>>
    /\ UNCHANGED clientVars

\* (mutant) no finally block: the flag is left as it is
KeepFlag(st) == activeSyncs

\* the finally block: activeSyncs.delete(store.id)
ClearFlag(st) == [activeSyncs EXCEPT ![st] = "absent"]

\* the task resumes after the final write: sync_complete, then the finally block
FinalDone(s) ==
    /\ loops[s].pc = "finalDone"
    /\ events' = broadcastUpdate(events, s, [type |-> "sync_complete", sku |-> "", n |-> 0,
                                                 info |-> ""])
    /\ activeSyncs' = ClearFlag(loops[s].store)
    /\ loops' = [loops EXCEPT ![s].pc = "done"]
    /\ UNCHANGED <<sessions, logs, cleared, calls, stops, stopReq, faults, refused, nStarts, nStops>>
    /\ UNCHANGED clientVars

\* the outer catch: updateSyncSession({status: failed}) reaches storage
FailWrite(s) ==
    /\ loops[s].pc = "failWrite"
    /\ sessions' = updateSyncSession(sessions, s, [status |-> "failed"])
    /\ loops' = [loops EXCEPT ![s].pc = "failDone", ![s].final = "failed"]
    /\ UNCHANGED <<activeSyncs, logs, events, cleared, calls, stops, stopReq, faults, refused, nStarts, nStops>>
    /\ UNCHANGED clientVars

\* (mutant) sync_complete is broadcast from the finally block as well
FailDoneAlsoCompletes(s) ==
    /\ loops[s].pc = "failDone"
    /\ events' = [events EXCEPT ![s] = @ \o
            <<[type |-> "sync_error", sku |-> "", n |-> 0, info |-> loops[s].err],
              [type |-> "sync_complete", sku |-> "", n |-> 0, info |-> ""]>>]
    /\ activeSyncs' = ClearFlag(loops[s].store)
    /\ loops' = [loops EXCEPT ![s].pc = "done"]
    /\ UNCHANGED <<sessions, logs, cleared, calls, stops, stopReq, faults, refused, nStarts, nStops>>
    /\ UNCHANGED clientVars

\* the task resumes in the catch: sync_error, then the finally block
FailDone(s) ==
    /\ loops[s].pc = "failDone"
    /\ events' = broadcastUpdate(events, s,
            [type |-> "sync_error", sku |-> "", n |-> 0, info |-> loops[s].err])
    /\ activeSyncs' = ClearFlag(loops[s].store)
    /\ loops' = [loops EXCEPT ![s].pc = "done"]
    /\ UNCHANGED <<sessions, logs, cleared, calls, stops, stopReq, faults, refused, nStarts, nStops>>
    /\ UNCHANGED clientVars

\* ---------------------------- performSync: storage calls that throw
\* the message of a storage call that fails
StorageMsg == "db unavailable"

\* updateSyncSession({totalSkus}) threw: outside the row's try block
SetTotalThrows(s) ==
    /\ loops[s].pc = "setTotal"
    /\ faults' = faults + 1
    /\ loops' = [loops EXCEPT ![s] = OnFatal(@, StorageMsg)]
    /\ UNCHANGED <<activeSyncs, sessions, logs, events, cleared, calls, stops, stopReq, refused, nStarts, nStops>>
    /\ UNCHANGED clientVars

\* createSyncLog threw inside the row's try block: the row's catch takes over
LogThrows(s) ==
    /\ loops[s].pc \in {"logSuccess", "logNotFound"}
    /\ faults' = faults + 1
    /\ loops' = [loops EXCEPT ![s] = OnRowError(@, StorageMsg)]
    /\ UNCHANGED <<activeSyncs, sessions, logs, events, cleared, calls, stops, stopReq, refused, nStarts, nStops>>
    /\ UNCHANGED clientVars

\* createSyncLog threw inside the row's catch block: the outer catch takes over
LogErrorThrows(s) ==
    /\ loops[s].pc = "logError"
    /\ faults' = faults + 1
    /\ loops' = [loops EXCEPT ![s] = OnFatal(@, StorageMsg)]
    /\ UNCHANGED <<activeSyncs, sessions, logs, events, cleared, calls, stops, stopReq, refused, nStarts, nStops>>
    /\ UNCHANGED clientVars

\* updateSyncSession(counters) threw: it is awaited outside the row's try block
PersistThrows(s) ==
    /\ loops[s].pc = "persist"
    /\ faults' = faults + 1
    /\ loops' = [loops EXCEPT ![s] = OnFatal(@, StorageMsg)]
    /\ UNCHANGED <<activeSyncs, sessions, logs, events, cleared, calls, stops, stopReq, refused, nStarts, nStops>>
    /\ UNCHANGED clientVars

\* the final updateSyncSession({status}) threw: the outer catch writes failed
FinalWriteThrows(s) ==
    /\ loops[s].pc = "finalWrite"
    /\ faults' = faults + 1
    /\ loops' = [loops EXCEPT ![s] = OnFatal(@, StorageMsg)]
    /\ UNCHANGED <<activeSyncs, sessions, logs, events, cleared, calls, stops, stopReq, refused, nStarts, nStops>>
    /\ UNCHANGED clientVars

\* updateSyncSession({status: failed}) threw inside the outer catch: no sync_error
\* is broadcast, the finally block runs and performSync rejects (startSync's
\* .catch logs the error)
FailWriteThrows(s) ==
    /\ loops[s].pc = "failWrite"
    /\ faults' = faults + 1
    /\ activeSyncs' = ClearFlag(loops[s].store)
    /\ loops' = [loops EXCEPT ![s].pc = "done", ![s].err = StorageMsg]
    /\ UNCHANGED <<sessions, logs, events, cleared, calls, stops, stopReq, refused, nStarts, nStops>>
    /\ UNCHANGED clientVars

\* ------------------------------- the rate-limited request queue of a client
Clients == {"shopify", "sheets"}
ShopifyQueueDelay == 800
SheetsQueueDelay == 500
\* this.queueDelay of the instance
queueDelay(c) == IF c = "shopify" THEN ShopifyQueueDelay ELSE SheetsQueueDelay

Idle == [pc |-> "idle", item |-> 0, shifted |-> 0, due |-> 0]

\* (mutant) requestQueue.pop() for the item: the newest request is taken
PopItem(q) == q[Len(q)]

\* requestQueue.shift(): the item taken and the queue left
ShiftItem(q) == Head(q)
ShiftRest(q) == Tail(q)

\* (mutant) the delay is skipped when the queue holds no further request
TimerDueIfBacklog(t, c) == IF Len(requestQueue) > 1 THEN t + queueDelay(c) ELSE t

\* setTimeout(resolve, this.queueDelay) set at time t fires no earlier than this
TimerDue(t, c) == t + queueDelay(c)

\* the loop body of processQueue up to its await: shift one item, start the delay
TakeNext(q) ==
    /\ requestQueue' = ShiftRest(q)
    /\ drain' = [pc |-> "delay", item |-> ShiftItem(q), shifted |-> now,
                 due |-> TimerDue(now, client)]

\* (mutant) processQueue does not look at isProcessingQueue
ReturnsWhenEmpty(q) == Len(q) = 0

\* the test at the head of processQueue: it returns at once when a drain is in
\* progress or the queue q is empty
ReturnsEarly(q) == isProcessingQueue \/ Len(q) = 0

\* makeRequest / queueRequest while no drain is active: push, then processQueue
\* sets isProcessingQueue and runs to the delay of the first item
EnqueueStart ==
    /\ enqueued < MaxOps
    /\ ~ReturnsEarly(Append(requestQueue, enqueued + 1))
    /\ enqueued' = enqueued + 1
    /\ settled' = [settled EXCEPT ![enqueued + 1] = "pending"]
    /\ isProcessingQueue' = TRUE
    /\ activeDrains' = activeDrains + 1
    /\ TakeNext(Append(requestQueue, enqueued + 1))
    /\ UNCHANGED <<client, executed, startedAt, now>>
    /\ UNCHANGED <<orchVars, sheetVars, callVars>>

\* makeRequest / queueRequest while a drain is active: push; processQueue returns
EnqueueOnly ==
    /\ enqueued < MaxOps
    /\ ReturnsEarly(Append(requestQueue, enqueued + 1))
    /\ enqueued' = enqueued + 1
    /\ settled' = [settled EXCEPT ![enqueued + 1] = "pending"]
    /\ requestQueue' = Append(requestQueue, enqueued + 1)
    /\ UNCHANGED <<client, isProcessingQueue, drain, activeDrains, executed, startedAt, now>>
    /\ UNCHANGED <<orchVars, sheetVars, callVars>>

\* the delay timer fires: the operation is started (executeRequest / sheets call)
TimerFires ==
    /\ drain.pc = "delay"
    /\ now >= drain.due
    /\ drain' = [drain EXCEPT !.pc = "exec"]
    /\ executed' = Append(executed, drain.item)
    /\ startedAt' = Append(startedAt, now)
    /\ UNCHANGED <<client, requestQueue, isProcessingQueue, activeDrains, enqueued, settled,
                   now>>
    /\ UNCHANGED <<orchVars, sheetVars, callVars>>

\* (mutant) an if in place of the while: the drain ends after one item
DrainOnce ==
    /\ isProcessingQueue' = FALSE
    /\ activeDrains' = activeDrains - 1
    /\ drain' = Idle
    /\ UNCHANGED requestQueue

\* the head of the while loop after an item was settled
DrainOn ==
    IF Len(requestQueue) > 0
    THEN /\ TakeNext(requestQueue)
         /\ UNCHANGED <<isProcessingQueue, activeDrains>>
    ELSE /\ isProcessingQueue' = FALSE
         /\ activeDrains' = activeDrains - 1
         /\ drain' = Idle
         /\ UNCHANGED requestQueue

\* the operation returned: item.resolve(result), then the loop goes on
ExecOk ==
    /\ drain.pc = "exec"
    /\ settled' = [settled EXCEPT ![drain.item] = "resolved"]
    /\ DrainOn
    /\ UNCHANGED <<client, executed, startedAt, enqueued, now>>
    /\ UNCHANGED <<orchVars, sheetVars, callVars>>

\* (mutant) no try/catch in the loop body: the failure ends the drain
ExecThrowsEndsDrain ==
    /\ drain.pc = "exec"
    /\ settled' = [settled EXCEPT ![drain.item] = "rejected"]
    /\ isProcessingQueue' = FALSE
    /\ activeDrains' = activeDrains - 1
    /\ drain' = Idle
    /\ UNCHANGED <<client, requestQueue, executed, startedAt, enqueued, now>>
    /\ UNCHANGED <<orchVars, sheetVars, callVars>>

\* the operation threw: item.reject(error), then the loop goes on
ExecThrows ==
    /\ drain.pc = "exec"
    /\ settled' = [settled EXCEPT ![drain.item] = "rejected"]
    /\ DrainOn
    /\ UNCHANGED <<client, executed, startedAt, enqueued, now>>
    /\ UNCHANGED <<orchVars, sheetVars, callVars>>

\* time passes while the drain waits for its delay timer
TimerTick ==
    /\ drain.pc = "delay"
    /\ now < drain.due
    /\ now' = now + TickMs
    /\ UNCHANGED <<client, requestQueue, isProcessingQueue, drain, activeDrains, executed,
                   startedAt, enqueued, settled>>
    /\ UNCHANGED <<orchVars, sheetVars, callVars>>

\* time passes
Tick ==
    /\ now + TickMs <= MaxTime
    /\ now' = now + TickMs
    /\ UNCHANGED <<client, requestQueue, isProcessingQueue, drain, activeDrains, executed,
                   startedAt, enqueued, settled>>
    /\ UNCHANGED <<orchVars, sheetVars, callVars>>

\* ------------------------------------- GoogleSheetsService.getSheetData
\* A cell is a string, written as the sequence of its characters; a row is the
\* sequence of its cells. The API leaves out the empty cells at the end of a
\* row, so rows differ in length.
Digits == {"0", "1", "2", "5", "9"}

DigitValue(c) ==
    CASE c = "0" -> 0 [] c = "1" -> 1 [] c = "2" -> 2 [] c = "5" -> 5 [] c = "9" -> 9

\* String.prototype.trim
RECURSIVE TrimLeft(_)
TrimLeft(s) == IF s # <<>> /\ Head(s) = " " THEN TrimLeft(Tail(s)) ELSE s

RECURSIVE TrimRight(_)
TrimRight(s) ==
    IF s # <<>> /\ s[Len(s)] = " " THEN TrimRight(SubSeq(s, 1, Len(s) - 1)) ELSE s

Trim(s) == TrimRight(TrimLeft(s))

\* replace(/[$,]/g, '')
StripCurrency(s) == SelectSeq(s, LAMBDA c : c \notin {"$", ","})

\* x || '0' for a string x (the empty string and undefined are falsy)
OrZero(s) == IF s = <<>> THEN <<"0">> ELSE s

\* the longest prefix of s made of digits
RECURSIVE DigitPrefix(_)
DigitPrefix(s) ==
    IF s # <<>> /\ Head(s) \in Digits THEN <<Head(s)>> \o DigitPrefix(Tail(s)) ELSE <<>>

\* the number a sequence of digits denotes
RECURSIVE IntValue(_)
IntValue(ds) ==
    IF ds = <<>> THEN 0 ELSE 10 * IntValue(SubSeq(ds, 1, Len(ds) - 1)) + DigitValue(ds[Len(ds)])

\* the thousandths the digits after the decimal point denote (three digits kept)
FracMilli(fs) ==
    (IF Len(fs) >= 1 THEN 100 * DigitValue(fs[1]) ELSE 0)
    + (IF Len(fs) >= 2 THEN 10 * DigitValue(fs[2]) ELSE 0)
    + (IF Len(fs) >= 3 THEN DigitValue(fs[3]) ELSE 0)

NaN == [nan |-> TRUE, milli |-> 0]

\* parseFloat: leading blanks are skipped, then an optional sign, digits and an
\* optional fraction are read; what follows is ignored; no digit at all gives NaN.
\* A number is kept in thousandths.
parseFloat(s) ==
    LET t == TrimLeft(s)
        neg == t # <<>> /\ Head(t) = "-"
        u == IF t # <<>> /\ Head(t) \in {"-", "+"} THEN Tail(t) ELSE t
        ip == DigitPrefix(u)
        r == SubSeq(u, Len(ip) + 1, Len(u))
        fp == IF r # <<>> /\ Head(r) = "." THEN DigitPrefix(Tail(r)) ELSE <<>>
        m == 1000 * IntValue(ip) + FracMilli(fp)
    IN IF ip = <<>> /\ fp = <<>> THEN NaN
       ELSE [nan |-> FALSE, milli |-> IF neg THEN 0 - m ELSE m]

\* v > 0 for a parsed number (false for NaN)
GreaterThanZero(v) == ~v.nan /\ v.milli > 0

\* row[k] of the code (k counted from 1 here); a cell past the end of the row is
\* undefined, which every use below treats like the empty string
Cell(row, k) == IF k <= Len(row) THEN row[k] ELSE <<>>

\* parseFloat(row[k]?.toString().replace(/[$,]/g, '') || '0')
ParsePrice(cell) == parseFloat(OrZero(StripCurrency(cell)))

\* the two tests of the loop body: row.length >= 3 && row[0], then sku && price > 0
RowKept(row) ==
    /\ Len(row) >= 3
    /\ row[1] # <<>>
    /\ Trim(row[1]) # <<>>
    /\ GreaterThanZero(ParsePrice(row[2]))

\* (mutant) the entry carries the 0-based index i of the loop
RowEntryZeroBased(row, j) ==
    [sku |-> Trim(row[1]), variantPrice |-> ParsePrice(row[2]),
     compareAtPrice |-> ParsePrice(row[3]), row |-> j - 1]

\* the entry pushed for the row at position j of the sheet (1-based)
RowEntry(row, j) ==
    [sku |-> Trim(row[1]), variantPrice |-> ParsePrice(row[2]),
     compareAtPrice |-> ParsePrice(row[3]), row |-> j]

\* the for loop of getSheetData from position j on (position 1 is the header)
RECURSIVE ParseRows(_, _)
ParseRows(rows, j) ==
    IF j > Len(rows) THEN <<>>
    ELSE (IF RowKept(rows[j]) THEN <<RowEntry(rows[j], j)>> ELSE <<>>)
         \o ParseRows(rows, j + 1)

getSheetData(rows) == ParseRows(rows, 2)

\* getSheetData returns the parsed rows of the sheet
GetSheetDataReturns ==
    /\ ~sheetRead
    /\ sheetRead' = TRUE
    /\ sheetData' = getSheetData(sheetValues)
    /\ UNCHANGED <<sheetValues, orchVars, queueVars, callVars>>

\* the cells a sheet may hold in columns A (SKU), B (price), C (compare-at
\* price) and D (variant id)
SkuCells == {<<>>, <<" ">>, <<"A">>, <<" ", "A", " ">>}
PriceCells == {<<>>, <<"0">>, <<"1", "0">>, <<"$", "1", ",", "0", "0", "0">>, <<"x">>,
               <<"-", "5">>, <<"0", ".", "5">>}
CompareCells == {<<>>, <<"2", "0">>}
IdCells == {<<"9">>}

\* the rows the API may return: any number of leading columns
CellRows ==
    {<<>>}
    \cup {<<a>> : a \in SkuCells}
    \cup {<<a, b>> : a \in SkuCells, b \in PriceCells}
    \cup {<<a, b, c>> : a \in SkuCells, b \in PriceCells, c \in CompareCells}
    \cup {<<a, b, c, d>> : a \in SkuCells, b \in PriceCells, c \in CompareCells,
                           d \in IdCells}

HeaderRow == <<<<"S">>, <<"P">>, <<"C">>, <<"I", "D">>>>

\* a sheet: the header row and up to MaxDataRows data rows
SheetInputs ==
    {<<HeaderRow>> \o rs : rs \in UNION {[1..n -> CellRows] : n \in 0..MaxDataRows}}

\* ---------------------------------------------------------- specifications
InitOrch ==
    /\ activeSyncs = [st \in Stores |-> "absent"]
    /\ sessions = <<>>
    /\ logs = <<>>
    /\ events = <<>>
    /\ cleared = [st \in Stores |-> 0]
    /\ calls = <<>>
    /\ nStarts = 0
    /\ stops = <<>>
    /\ nStops = 0
    /\ loops = <<>>
    /\ stopReq = <<>>
    /\ faults = 0
    /\ refused = {}

InitQueue ==
    /\ requestQueue = <<>>
    /\ isProcessingQueue = FALSE
    /\ drain = Idle
    /\ activeDrains = 0
    /\ executed = <<>>
    /\ startedAt = <<>>
    /\ enqueued = 0
    /\ settled = [o \in 1..MaxOps |-> "none"]
    /\ now = 0

\* no client method has been called and the product cache is not loaded
NoCall == [pc |-> "none", i |-> 0, n |-> 0, total |-> 0, state |-> "none"]

\* the variants updateVariantPrice is called for
Variants == {"v1", "v2"}

\* no updateVariantPrice call has been made
NoUpdate == [variantId |-> "none", price |-> [nan |-> TRUE, milli |-> 0],
             compareAtPrice |-> <<>>, body |-> [id |-> "none"]]

InitCall ==
    /\ call = NoCall
    /\ productsLoaded = FALSE
    /\ allProducts = <<>>
    /\ finds = <<>>
    /\ fetched = <<>>
    /\ answered = 0
    /\ lastUpdate = NoUpdate
    /\ headerCalls = <<>>
    /\ rowCalls = <<>>
    /\ remote = [v \in Variants |-> [price |-> <<"5", ".", "0", "0">>,
                                     compare_at_price |-> <<"n", "u", "l", "l">>]]

\* no sheet has been read
InitSheet ==
    /\ sheetValues = <<>>
    /\ sheetRead = FALSE
    /\ sheetData = <<>>
    /\ InitCall
    /\ shop = <<>>

\* the sync service, its clients' queues left out
Init == InitOrch /\ InitQueue /\ InitSheet /\ client = "shopify"

\* startSync for the stores of S with their own sheets, at most n calls
StartActions(S, n) ==
    \/ /\ nStarts < n
       /\ \E st \in S : StartSyncBegin(st, SheetOf[st])
    \/ \E c \in DOMAIN calls : StartSyncCreate(c)
    \/ \E c \in DOMAIN calls : StartSyncLaunch(c)

\* startSync calls that fail: the flag is set, or the sheet id is unknown
RefusedStarts(S, n) ==
    \/ \E st \in S : StartSyncRejected(st, SheetOf[st])
    \/ /\ nStarts < n
       /\ \E st \in S : StartSyncBegin(st, "gX")
    \/ \E c \in DOMAIN calls : StartSyncNotFound(c)

\* stopSync and clearSession for the stores of S, at most n calls
StopActions(S, n) ==
    \/ /\ nStops < n
       /\ \E st \in S, kind \in {"stop", "clear"} : StopSyncCall(st, kind)
    \/ \E k \in DOMAIN stops : StopGet(k)
    \/ \E k \in DOMAIN stops : StopUpd(k)
    \/ \E k \in DOMAIN stops : StopReturn(k)

\* the steps of performSync in which every call returns
LoopActions ==
    \/ \E s \in DOMAIN sessions : HeaderOk(s)
    \/ \E s \in DOMAIN sessions : GetDataOk(s)
    \/ \E s \in DOMAIN sessions : SetTotal(s)
    \/ \E s \in DOMAIN sessions : FindOk(s)
    \/ \E s \in DOMAIN sessions : UpdateOk(s)
    \/ \E s \in DOMAIN sessions : LogSuccess(s)
    \/ \E s \in DOMAIN sessions : Writeback(s)
    \/ \E s \in DOMAIN sessions : LogNotFound(s)
    \/ \E s \in DOMAIN sessions : Persist(s)
    \/ \E s \in DOMAIN sessions : Pause(s)
    \/ \E s \in DOMAIN sessions : FinalWrite(s)
    \/ \E s \in DOMAIN sessions : FinalDone(s)

\* the steps of performSync in which a call throws (at most n throws), and the
\* handlers they lead to
FailureActions(n) ==
    \/ /\ faults < n
       /\ \E s \in DOMAIN sessions : HeaderThrows(s)
    \/ /\ faults < n
       /\ \E s \in DOMAIN sessions : GetDataThrows(s, "sheet unreadable")
    \/ /\ faults < n
       /\ \E s \in DOMAIN sessions, m \in Msgs : FindThrows(s, m)
    \/ /\ faults < n
       /\ \E s \in DOMAIN sessions, m \in Msgs : UpdateThrows(s, m)
    \/ \E s \in DOMAIN sessions : LogError(s)
    \/ \E s \in DOMAIN sessions : FailWrite(s)
    \/ \E s \in DOMAIN sessions : FailDone(s)

\* the sync service under concurrent requests for all stores
Next ==
    \/ StartActions(Stores, MaxStarts)
    \/ RefusedStarts(Stores, MaxStarts)
    \/ StopActions(Stores, MaxStops)
    \/ LoopActions
    \/ FailureActions(MaxFaults)

Spec == Init /\ [][Next]_vars

\* runs in which no call fails
NextNoFault ==
    \/ StartActions(Stores, MaxStarts)
    \/ StopActions(Stores, MaxStops)
    \/ LoopActions

SpecNoFault == Init /\ [][NextNoFault]_vars

\* runs in which no stop or clear request is made and no call fails
NextHappy == StartActions(Stores, MaxStarts) \/ LoopActions

SpecHappy == Init /\ [][NextHappy]_vars

\* the requests for one store, with stops, clears and failing calls
NextRun ==
    \/ StartActions({"s2"}, MaxRuns)
    \/ StopActions({"s2"}, MaxRunStops)
    \/ LoopActions
    \/ FailureActions(MaxRunFaults)

SpecRun == Init /\ [][NextRun]_vars

\* the steps of performSync in which a storage call throws: at most n throws
\* outside the catch blocks, and the writes of the two catch blocks, which a
\* loop reaches only after a throw outside them
StorageFailures(n) ==
    \/ /\ faults < n
       /\ \E s \in DOMAIN sessions : SetTotalThrows(s)
    \/ /\ faults < n
       /\ \E s \in DOMAIN sessions : LogThrows(s)
    \/ \E s \in DOMAIN sessions : LogErrorThrows(s)
    \/ /\ faults < n
       /\ \E s \in DOMAIN sessions : PersistThrows(s)
    \/ /\ faults < n
       /\ \E s \in DOMAIN sessions : FinalWriteThrows(s)
    \/ \E s \in DOMAIN sessions : FailWriteThrows(s)

\* the step of performSync in which the sheet write-back fails (at most n failures)
WritebackFailures(n) ==
    /\ faults < n
    /\ \E s \in DOMAIN sessions : WritebackFails(s)

\* every loop launched for the store has ended and no startSync for it is in flight
LoopsEnded(st) ==
    /\ \A s \in DOMAIN sessions : sessions[s].storeId = st => loops[s].pc = "done"
    /\ \A c \in DOMAIN calls : calls[c].store # st

\* one store's requests, one run after the other (startSync is called again only
\* after the earlier run's loop has ended), with stopSync requests at any time
\* (clearSession treats the flag and the Run as stopSync does), where external
\* calls and storage calls may throw
NextLive ==
    \/ /\ nStarts < MaxLiveRuns
       /\ LoopsEnded("s2")
       /\ StartSyncBegin("s2", SheetOf["s2"])
    \/ \E c \in DOMAIN calls : StartSyncCreate(c)
    \/ \E c \in DOMAIN calls : StartSyncLaunch(c)
    \/ /\ nStops < MaxLiveStops
       /\ StopSyncCall("s2", "stop")
    \/ \E k \in DOMAIN stops : StopGet(k)
    \/ \E k \in DOMAIN stops : StopUpd(k)
    \/ LoopActions
    \/ FailureActions(MaxLiveFaults)
    \/ StorageFailures(MaxLiveFaults)
    \/ WritebackFailures(MaxLiveFaults)

\* the step a launched loop takes when the call it awaits returns
LoopReturns(s) ==
    /\ s \in DOMAIN sessions
    /\ \/ HeaderOk(s) \/ GetDataOk(s) \/ SetTotal(s) \/ FindOk(s) \/ UpdateOk(s)
       \/ LogSuccess(s) \/ Writeback(s) \/ LogNotFound(s) \/ LogError(s) \/ Persist(s)
       \/ Pause(s) \/ FinalWrite(s) \/ FinalDone(s) \/ FailWrite(s) \/ FailDone(s)

\* every awaited call returns or throws, and a resumed task runs: a startSync
\* past createSyncSession launches its loop, and a loop takes its next step
Fairness ==
    /\ WF_vars(\E c \in DOMAIN calls : StartSyncLaunch(c))
    /\ \A s \in 1..MaxLiveRuns : WF_vars(LoopReturns(s))

SpecLive == Init /\ [][NextLive]_vars /\ Fairness

\* startSync calls for all stores, accepted and refused, with the loops they launch
NextStarts ==
    \/ StartActions(Stores, MaxStarts)
    \/ RefusedStarts(Stores, MaxStarts)
    \/ LoopActions

SpecStarts == Init /\ [][NextStarts]_vars

\* getSheetData applied to any of the sheets
InitRead ==
    /\ InitOrch
    /\ InitQueue
    /\ client = "sheets"
    /\ sheetValues \in SheetInputs
    /\ sheetRead = FALSE
    /\ sheetData = <<>>
    /\ InitCall
    /\ shop = <<>>

NextRead == GetSheetDataReturns

SpecRead == InitRead /\ [][NextRead]_vars

\* one store's requests where startSync calls do not overlap each other (a call
\* is made only when the previous one has returned), with stop and clear
\* requests at any time and no failing call
NextRestart ==
    \/ /\ nStarts < MaxStarts
       /\ calls = <<>>
       /\ StartSyncBegin("s2", SheetOf["s2"])
    \/ \E c \in DOMAIN calls : StartSyncCreate(c)
    \/ \E c \in DOMAIN calls : StartSyncLaunch(c)
    \/ StopActions({"s2"}, MaxStops)
    \/ LoopActions

SpecRestart == Init /\ [][NextRestart]_vars

\* one client's request queue under arbitrary enqueues, outcomes and timing
InitQ == InitOrch /\ InitQueue /\ InitSheet /\ client \in Clients

NextQ == EnqueueStart \/ EnqueueOnly \/ TimerFires \/ ExecOk \/ ExecThrows \/ Tick

SpecQueue == InitQ /\ [][NextQ]_vars

\* the same queue where time always passes for a pending timer, a timer that is
\* due fires, and a started operation returns or throws
NextQLive == NextQ \/ TimerTick

QueueFairness ==
    /\ WF_vars(TimerTick)
    /\ WF_vars(TimerFires)
    /\ WF_vars(ExecOk \/ ExecThrows)

SpecQueueLive == InitQ /\ [][NextQLive]_vars /\ QueueFairness

\* ------------------------------ one run and the request queue of one of its clients
\* performSync creates its two clients itself, so a client's queue receives the
\* calls of that one loop only.  The queue below is the one of the run's client
\* `client`; the calls on the run's other client return or throw in one step.

\* the steps of performSync that await a method of client c
ClientPcs(c) ==
    IF c = "shopify" THEN {"find", "update"} ELSE {"header", "getData", "writeback"}

\* the number of products requests loadAllProducts makes for the shop's catalog:
\* one full page of 250 and a shorter one
CatalogPages == 2

\* the client method takes another request after its n-th one returned:
\* loadAllProducts after a full page, updateSheetHeader when D1 is not 'ID'
AnotherRequest(pc, n, headerIsId) ==
    \/ pc = "find" /\ n < CatalogPages
    \/ pc = "header" /\ n = 1 /\ ~headerIsId

\* (mutant) the loop goes on without awaiting the client method
NotAwaited(s, outcome) == TRUE

\* the loop of session s may resume with the given outcome of the call it awaits
Awaited(s, outcome) ==
    loops[s].pc \in ClientPcs(client) =>
        /\ call.pc = loops[s].pc
        /\ call.i = loops[s].i
        /\ call.state = outcome

\* the loop calls a method of the client, which runs to its first await:
\* findVariantBySku with the products loaded has nothing to request; every other
\* method hands its first request to makeRequest / queueRequest
ClientCall(s) ==
    /\ s \in DOMAIN loops
    /\ loops[s].pc \in ClientPcs(client)
    /\ <<call.pc, call.i>> # <<loops[s].pc, loops[s].i>>
    /\ IF loops[s].pc = "find" /\ productsLoaded
       THEN call' = [call EXCEPT !.pc = "find", !.i = loops[s].i, !.n = 0,
                                 !.state = "done"]
       ELSE /\ call.total < MaxOps
            /\ call' = [pc |-> loops[s].pc, i |-> loops[s].i, n |-> 1,
                        total |-> call.total + 1, state |-> "waiting"]
    /\ UNCHANGED <<productsLoaded, cacheVars, writeVars, headerCalls, rowCalls, orchVars, queueVars, sheetVars>>

\* the push and processQueue call of the request the method has just made
ClientEnqueue ==
    /\ enqueued < call.total
    /\ (EnqueueStart \/ EnqueueOnly)

\* the method resumes when its request has settled: a rejection is thrown to the
\* loop, a result is followed by the next request or by the method's return;
\* loadAllProducts sets productsLoaded after its last page
ClientResumes ==
    /\ call.state = "waiting"
    /\ enqueued = call.total
    /\ settled[call.total] \in {"resolved", "rejected"}
    /\ IF settled[call.total] = "rejected"
       THEN /\ call' = [call EXCEPT !.state = "failed"]
            /\ UNCHANGED productsLoaded
       ELSE \E headerIsId \in BOOLEAN :
              IF AnotherRequest(call.pc, call.n, headerIsId)
              THEN /\ call.total < MaxOps
                   /\ call' = [call EXCEPT !.n = @ + 1, !.total = @ + 1]
                   /\ UNCHANGED productsLoaded
              ELSE /\ call' = [call EXCEPT !.state = "done"]
                   /\ productsLoaded' = (productsLoaded \/ call.pc = "find")
    /\ UNCHANGED <<cacheVars, writeVars, headerCalls, rowCalls, orchVars, queueVars, sheetVars>>

\* a request of the run fails (at most n failing calls in the run)
RequestFails(n) ==
    /\ faults < n
    /\ ExecThrows

NextRunClient ==
    \/ /\ nStarts = 0
       /\ StartSyncBegin("s2", SheetOf["s2"])
    \/ \E c \in DOMAIN calls : StartSyncCreate(c)
    \/ \E c \in DOMAIN calls : StartSyncLaunch(c)
    \/ StopActions({"s2"}, MaxRunStops)
    \/ \E s \in DOMAIN loops : ClientCall(s)
    \/ ClientEnqueue
    \/ TimerTick
    \/ TimerFires
    \/ ExecOk
    \/ RequestFails(MaxRunFaults)
    \/ ClientResumes
    \/ /\ \A s \in DOMAIN loops : Awaited(s, "done")
       /\ LoopActions
    \/ /\ \A s \in DOMAIN loops : Awaited(s, "failed")
       /\ (FailureActions(MaxRunFaults + 1) \/ WritebackFailures(MaxRunFaults + 1))

SpecRunClient == InitQ /\ [][NextRunClient]_vars

\* ---------------------------------------- ShopifyService: the product cache
\* the variants of a product, by SKU: a product without the SKUs searched for, one
\* whose first variant differs from "A" in case only, and one with a duplicate SKU
ProductKinds == {<<"B">>, <<"a", "A">>, <<"A", "A">>}

RECURSIVE Listings(_)
\* the product listings of up to n products
Listings(n) ==
    IF n = 0 THEN {<<>>}
    ELSE LET S == Listings(n - 1)
         IN S \cup {Append(l, p) : l \in {x \in S : Len(x) = n - 1}, p \in ProductKinds}

Shops == Listings(MaxProducts)

\* the SKUs findVariantBySku is called with
SearchedSkus == {"A", "b"}

\* the product objects of the listing from position lo to hi
ProductsFrom(lo, hi) ==
    IF hi < lo THEN <<>>
    ELSE [j \in 1..(hi - lo + 1) |-> [id |-> lo + j - 1, variants |-> shop[lo + j - 1]]]

\* response.products of products.json?limit=250&page=p
ProductsPage(p) ==
    ProductsFrom((p - 1) * PageSize + 1,
                 IF p * PageSize < Len(shop) THEN p * PageSize ELSE Len(shop))

RECURSIVE FindLastIndex(_, _, _)
\* (mutant) the last variant of the product with the SKU is taken
FindLastIndex(variants, sku, j) ==
    IF j > Len(variants) THEN 0
    ELSE LET r == FindLastIndex(variants, sku, j + 1)
         IN IF r # 0 THEN r ELSE IF variants[j] = sku THEN j ELSE 0

RECURSIVE FindIndex(_, _, _)
\* product.variants.find(v => v.sku === sku), from position j on: the position of
\* the variant found, 0 for undefined
FindIndex(variants, sku, j) ==
    IF j > Len(variants) THEN 0
    ELSE IF variants[j] = sku THEN j
    ELSE FindIndex(variants, sku, j + 1)

\* the null findVariantBySku returns
Null == [id |-> <<0, 0>>, sku |-> "null", product_id |-> 0]

RECURSIVE ScanProducts(_, _, _)
\* for (const product of this.allProducts), from product k on: the first variant
\* found is returned with its product's id, null after the last product
ScanProducts(products, sku, k) ==
    IF k > Len(products) THEN Null
    ELSE LET j == FindIndex(products[k].variants, sku, 1)
         IN IF j # 0
            THEN [id |-> <<products[k].id, j>>, sku |-> products[k].variants[j],
                  product_id |-> products[k].id]
            ELSE ScanProducts(products, sku, k + 1)

\* (mutant) loadAllProducts without its test of productsLoaded
NeverLoaded == FALSE

\* if (this.productsLoaded) return
AlreadyLoaded == productsLoaded

NewFind(sku, pc, page) ==
    [sku |-> sku, pc |-> pc, page |-> page, scanned |-> <<>>, result |-> Null]

\* findVariantBySku(sku) is called and runs to its first await: loadAllProducts
\* returns at once when the products are loaded, otherwise it empties allProducts
\* and requests page 1
FindVariantCall(sku) ==
    /\ Len(finds) < MaxFinds
    /\ IF AlreadyLoaded
       THEN /\ finds' = Append(finds, NewFind(sku, "scan", 0))
            /\ UNCHANGED <<allProducts, fetched>>
       ELSE /\ finds' = Append(finds, NewFind(sku, "page", 1))
            /\ allProducts' = <<>>
            /\ fetched' = Append(fetched, [call |-> Len(finds) + 1, page |-> 1])
    /\ UNCHANGED <<shop, answered, call, productsLoaded, writeVars, headerCalls, rowCalls>>
    /\ UNCHANGED <<orchVars, queueVars, sheetVars>>

\* the oldest unanswered products request returns (the client's queue answers in
\* request order): its products are pushed; after a full page the next page is
\* requested, otherwise productsLoaded is set and loadAllProducts returns
PageReturns ==
    /\ answered < Len(fetched)
    /\ LET r == fetched[answered + 1]
           products == ProductsPage(r.page)
           hasMore == Len(products) > 0 /\ Len(products) = PageSize
       IN /\ allProducts' = allProducts \o products
          /\ IF hasMore
             THEN /\ finds' = [finds EXCEPT ![r.call].page = r.page + 1]
                  /\ fetched' = Append(fetched, [call |-> r.call, page |-> r.page + 1])
                  /\ UNCHANGED productsLoaded
             ELSE /\ finds' = [finds EXCEPT ![r.call].pc = "scan"]
                  /\ productsLoaded' = TRUE
                  /\ UNCHANGED fetched
    /\ answered' = answered + 1
    /\ UNCHANGED <<shop, call, writeVars, headerCalls, rowCalls, orchVars, queueVars, sheetVars>>

\* the oldest unanswered products request throws: loadAllProducts and
\* findVariantBySku rethrow, productsLoaded and allProducts stay as they are
PageThrows ==
    /\ answered < Len(fetched)
    /\ finds' = [finds EXCEPT ![fetched[answered + 1].call].pc = "threw"]
    /\ answered' = answered + 1
    /\ UNCHANGED <<allProducts, shop, fetched, call, productsLoaded, writeVars, headerCalls, rowCalls>>
    /\ UNCHANGED <<orchVars, queueVars, sheetVars>>

\* findVariantBySku resumes after loadAllProducts and scans allProducts
FindVariantScans(c) ==
    /\ finds[c].pc = "scan"
    /\ finds' = [finds EXCEPT ![c].pc = "done", ![c].scanned = allProducts,
                              ![c].result = ScanProducts(allProducts, finds[c].sku, 1)]
    /\ UNCHANGED <<allProducts, shop, fetched, answered, call, productsLoaded, writeVars, headerCalls, rowCalls>>
    /\ UNCHANGED <<orchVars, queueVars, sheetVars>>

\* one catalog client of a shop with some product listing
InitCatalog ==
    /\ InitOrch
    /\ InitQueue
    /\ client = "shopify"
    /\ sheetValues = <<>>
    /\ sheetRead = FALSE
    /\ sheetData = <<>>
    /\ InitCall
    /\ shop \in Shops

\* no findVariantBySku call is in flight
NoFindInFlight == \A c \in DOMAIN finds : finds[c].pc \in {"done", "threw"}

\* the number of products requests that have thrown
PageFaults == Cardinality({c \in DOMAIN finds : finds[c].pc = "threw"})

\* findVariantBySku calls made one after the other, as performSync makes them;
\* a products request may throw
NextCatalogSeq ==
    \/ /\ NoFindInFlight
       /\ \E sku \in SearchedSkus : FindVariantCall(sku)
    \/ PageReturns
    \/ /\ PageFaults < MaxPageFaults
       /\ PageThrows
    \/ \E c \in DOMAIN finds : FindVariantScans(c)

SpecCatalogSeq == InitCatalog /\ [][NextCatalogSeq]_vars

\* findVariantBySku calls that may overlap; every products request returns
NextCatalog ==
    \/ \E sku \in SearchedSkus : FindVariantCall(sku)
    \/ PageReturns
    \/ \E c \in DOMAIN finds : FindVariantScans(c)

SpecCatalog == InitCatalog /\ [][NextCatalog]_vars

\* --------------------- GoogleSheetsService.updateVariantId after getSheetData
\* the rows of a sheet: an empty row, two rows that are kept (one with blanks
\* around its SKU and a variant id), a row with price 0, a row of two columns
RowKinds ==
    {<<>>,
     <<<<"A">>, <<"1", "0">>, <<"2", "0">>>>,
     <<<<" ", "A", " ">>, <<"1", "0">>, <<"2", "0">>, <<"9">>>>,
     <<<<"B">>, <<"0">>, <<"2", "0">>>>,
     <<<<"B">>, <<"1", "0">>>>}

\* sheets of up to MaxSheetRows rows; row 1 may be the header or look like data
SheetsWithRows ==
    UNION {[1..n -> RowKinds \cup {HeaderRow}] : n \in 0..MaxSheetRows}

\* the variant id performSync writes back
VariantId == <<"7">>

\* the row of a values.update of the one-cell range D<rowIndex>: columns A to C
\* are as they were (blank where the row was shorter), column D holds the value
RowWithD(row, value) ==
    IF Len(row) >= 4 THEN [row EXCEPT ![4] = value]
    ELSE row \o [j \in 1..(3 - Len(row)) |-> <<>>] \o <<value>>

\* updateVariantId(sheetId, sheetName, row.row, variant.id) for the k-th row that
\* getSheetData returned
UpdateVariantId(k) ==
    /\ sheetRead
    /\ k \in DOMAIN sheetData
    /\ sheetData[k].row \in DOMAIN sheetValues
    /\ sheetValues' = [sheetValues EXCEPT ![sheetData[k].row] = RowWithD(@, VariantId)]
    /\ sheetValues' # sheetValues
    /\ UNCHANGED <<sheetRead, sheetData, orchVars, queueVars, callVars>>

InitSheetRows ==
    /\ InitOrch
    /\ InitQueue
    /\ client = "sheets"
    /\ sheetValues \in SheetsWithRows
    /\ sheetRead = FALSE
    /\ sheetData = <<>>
    /\ InitCall
    /\ shop = <<>>

NextSheetRows ==
    \/ GetSheetDataReturns
    \/ \E k \in DOMAIN sheetData : UpdateVariantId(k)

SpecSheetRows == InitSheetRows /\ [][NextSheetRows]_vars

\* ------------------------------------- ShopifyService.updateVariantPrice
\* the character of a decimal digit
DigitChar(d) == <<"0", "1", "2", "3", "4", "5", "6", "7", "8", "9">>[d + 1]

RECURSIVE IntDigits(_)
\* the decimal digits of a natural number
IntDigits(n) ==
    IF n < 10 THEN <<DigitChar(n)>> ELSE IntDigits(n \div 10) \o <<DigitChar(n % 10)>>

\* Number.prototype.toFixed(2) of a number kept in thousandths: rounded to
\* hundredths, with a sign, a point and two decimals; "NaN" for NaN
toFixed2(v) ==
    IF v.nan THEN <<"N", "a", "N">>
    ELSE LET a == IF v.milli < 0 THEN 0 - v.milli ELSE v.milli
             cents == (a + 5) \div 10
         IN (IF v.milli < 0 THEN <<"-">> ELSE <<>>)
            \o IntDigits(cents \div 100)
            \o <<".", DigitChar((cents \div 10) % 10), DigitChar(cents % 10)>>

\* a number of the given thousandths
Num(m) == [nan |-> FALSE, milli |-> m]

\* the prices updateVariantPrice is called with (none of them halfway between
\* two hundredths)
PriceArgs == {Num(10000), Num(500), Num(12340), Num(9999)}

\* the optional compareAtPrice argument: <<>> when it is omitted or undefined,
\* otherwise the number passed, which may be 0, negative or NaN
CompareArgs == {<<>>, <<Num(0)>>, <<Num(20000)>>, <<Num(0 - 5000)>>, <<NaN>>}

\* (mutant) if (compareAtPrice): a truthiness test, false for 0 and NaN too
IsTruthy(arg) == arg # <<>> /\ ~arg[1].nan /\ arg[1].milli # 0

\* compareAtPrice !== undefined
IsDefined(arg) == arg # <<>>

\* updateData of updateVariantPrice
UpdateData(variantId, price, compareAtPrice) ==
    IF IsDefined(compareAtPrice)
    THEN [id |-> variantId, price |-> toFixed2(price),
          compare_at_price |-> toFixed2(compareAtPrice[1])]
    ELSE [id |-> variantId, price |-> toFixed2(price)]

\* the variant after a PUT of variants/<id>.json: the fields of the body replace
\* the variant's, a field that the body lacks stays as it is
AfterPut(variant, body) ==
    [price |-> body.price,
     compare_at_price |-> IF "compare_at_price" \in DOMAIN body
                          THEN body.compare_at_price
                          ELSE variant.compare_at_price]

\* updateVariantPrice(variantId, price, compareAtPrice) and its PUT request
UpdateVariantPrice(variantId, price, compareAtPrice) ==
    /\ lastUpdate' = [variantId |-> variantId, price |-> price,
                      compareAtPrice |-> compareAtPrice,
                      body |-> UpdateData(variantId, price, compareAtPrice)]
    /\ remote' = [remote EXCEPT ![variantId] =
                     AfterPut(@, UpdateData(variantId, price, compareAtPrice))]
    /\ UNCHANGED <<call, productsLoaded, cacheVars, headerCalls, rowCalls, orchVars, queueVars, sheetVars>>

\* the catalog client receiving updateVariantPrice calls
NextPrice ==
    \E v \in Variants, price \in PriceArgs, compareAtPrice \in CompareArgs :
        UpdateVariantPrice(v, price, compareAtPrice)

SpecPrice == Init /\ [][NextPrice]_vars

\* --------------- performSync: the price update issued for a row of the sheet
\* (mutant) the loop passes a compare-at price only when the row has a positive one
CompareArgIfPositive(e) ==
    IF GreaterThanZero(e.compareAtPrice) THEN <<e.compareAtPrice>> ELSE <<>>

\* the third argument of shopify.updateVariantPrice(variant.id, row.variantPrice,
\* row.compareAtPrice): always the number getSheetData parsed
CompareArg(e) == <<e.compareAtPrice>>

\* the loop's price update for the k-th returned row, whose SKU was found as variant v
LoopUpdatesPrice(k, v) ==
    /\ sheetRead
    /\ k \in DOMAIN sheetData
    /\ UpdateVariantPrice(v, sheetData[k].variantPrice, CompareArg(sheetData[k]))

NextLoopPrice ==
    \/ GetSheetDataReturns
    \/ \E k \in DOMAIN sheetData, v \in Variants : LoopUpdatesPrice(k, v)

SpecLoopPrice == InitRead /\ [][NextLoopPrice]_vars

\* ------------------------------ GoogleSheetsService.updateSheetHeader
\* the marker 'ID' of the header cell D1
Marker == <<"I", "D">>

\* row 1 of a sheet: columns A to C and a cell D1 that is missing, empty, the
\* marker, or differs from the marker in case, by a blank or by one more letter
HeaderRows ==
    {<<<<"S">>, <<"P">>, <<"C">>>>}
    \cup {<<<<"S">>, <<"P">>, <<"C">>, d>> :
            d \in {<<>>, Marker, <<"i", "d">>, <<" ", "I", "D">>, <<"I", "D", "X">>}}

\* the sheets updateSheetHeader is called on: without any row, or with a row 1
HeaderSheets == {<<>>} \cup {<<h>> : h \in HeaderRows}

\* headerResponse.data.values?.[0]?.[0] of the range D1 (undefined is <<>> here)
HeaderValue(rows) == IF rows = <<>> THEN <<>> ELSE Cell(rows[1], 4)

\* (mutant) the header is written whatever D1 holds
AlwaysWrites(headerValue) == TRUE

\* headerValue !== 'ID'
NotMarker(headerValue) == headerValue # Marker

NoHeaderCallInFlight == \A c \in DOMAIN headerCalls : headerCalls[c].pc \in {"done", "threw"}

\* updateSheetHeader is called and requests the range D1
UpdateSheetHeaderCall ==
    /\ Len(headerCalls) < MaxHeaderCalls
    /\ NoHeaderCallInFlight
    /\ headerCalls' = Append(headerCalls, [pc |-> "get", seen |-> <<>>, wrote |-> FALSE])
    /\ UNCHANGED <<call, productsLoaded, cacheVars, writeVars, rowCalls, orchVars, queueVars, sheetVars>>

\* the get of D1 returns: the update of D1 is requested unless the cell holds 'ID'
HeaderGetReturns(c) ==
    /\ headerCalls[c].pc = "get"
    /\ headerCalls' = [headerCalls EXCEPT
                          ![c].seen = HeaderValue(sheetValues),
                          ![c].pc = IF NotMarker(HeaderValue(sheetValues))
                                    THEN "update" ELSE "done"]
    /\ UNCHANGED <<call, productsLoaded, cacheVars, writeVars, rowCalls, orchVars, queueVars, sheetVars>>

\* the update of D1 with [['ID']] returns
HeaderUpdateReturns(c) ==
    /\ headerCalls[c].pc = "update"
    /\ headerCalls' = [headerCalls EXCEPT ![c].pc = "done", ![c].wrote = TRUE]
    /\ sheetValues' = IF sheetValues = <<>> THEN <<RowWithD(<<>>, Marker)>>
                      ELSE [sheetValues EXCEPT ![1] = RowWithD(@, Marker)]
    /\ UNCHANGED <<sheetRead, sheetData>>
    /\ UNCHANGED <<call, productsLoaded, cacheVars, writeVars, rowCalls, orchVars, queueVars>>

\* a request of updateSheetHeader throws: 'Failed to update sheet header'
HeaderRequestThrows(c) ==
    /\ headerCalls[c].pc \in {"get", "update"}
    /\ headerCalls' = [headerCalls EXCEPT ![c].pc = "threw"]
    /\ UNCHANGED <<call, productsLoaded, cacheVars, writeVars, rowCalls, orchVars, queueVars, sheetVars>>

InitHeader ==
    /\ InitOrch
    /\ InitQueue
    /\ client = "sheets"
    /\ sheetValues \in HeaderSheets
    /\ sheetRead = FALSE
    /\ sheetData = <<>>
    /\ InitCall
    /\ shop = <<>>

HeaderFaults == Cardinality({c \in DOMAIN headerCalls : headerCalls[c].pc = "threw"})

\* updateSheetHeader calls made one after the other on one sheet
NextHeader ==
    \/ UpdateSheetHeaderCall
    \/ \E c \in DOMAIN headerCalls : HeaderGetReturns(c)
    \/ \E c \in DOMAIN headerCalls : HeaderUpdateReturns(c)
    \/ /\ HeaderFaults < MaxHeaderFaults
       /\ \E c \in DOMAIN headerCalls : HeaderRequestThrows(c)

SpecHeader == InitHeader /\ [][NextHeader]_vars

\* ------------------------------------- SyncService.getSyncStatus after stopSync
\* the snapshot getSyncStatus returns; sessionId 0 stands for null (no active run)
getSyncStatus(ss, st) ==
    LET id == getCurrentSyncSession(ss, st)
    IN IF id = 0 THEN [sessionId |-> 0, storeId |-> st, status |-> "none"]
       ELSE [sessionId |-> id, storeId |-> ss[id].storeId, status |-> ss[id].status]

\* a stopSync call has returned
StopReturned == nStops > Len(stops)

\* one store: startSync calls made before the first stopSync call, stopSync
\* calls at any time, and the loops they concern; no call fails
NextStopStatus ==
    \/ /\ nStops = 0
       /\ nStarts < MaxRuns
       /\ StartSyncBegin("s2", SheetOf["s2"])
    \/ \E c \in DOMAIN calls : StartSyncCreate(c)
    \/ \E c \in DOMAIN calls : StartSyncLaunch(c)
    \/ /\ nStops < MaxRunStops
       /\ StopSyncCall("s2", "stop")
    \/ \E k \in DOMAIN stops : StopGet(k)
    \/ \E k \in DOMAIN stops : StopUpd(k)
    \/ LoopActions

SpecStopStatus == Init /\ [][NextStopStatus]_vars

\* ------------------------------------------------ SyncService.clearSession
\* one store whose runs are ended by clearSession calls only; no call fails
NextClear ==
    \/ StartActions({"s2"}, MaxRuns)
    \/ /\ nStops < MaxRunStops
       /\ StopSyncCall("s2", "clear")
    \/ \E k \in DOMAIN stops : StopGet(k)
    \/ \E k \in DOMAIN stops : StopUpd(k)
    \/ \E k \in DOMAIN stops : StopReturn(k)
    \/ LoopActions

SpecClear == Init /\ [][NextClear]_vars

\* ------------------------------------------------ two stores side by side
\* a startSync for the store has passed the flag test
Started(st) ==
    \/ \E c \in DOMAIN calls : calls[c].store = st
    \/ \E s \in DOMAIN sessions : sessions[s].storeId = st

\* the startSync, stopSync and clearSession calls made for store s2
OtherOps == nStops + nStarts - (IF Started("s1") THEN 1 ELSE 0)

\* store s1 is synced once and left alone, while store s2 is started (one call
\* at a time), stopped and cleared; no call fails
NextStores ==
    \/ /\ ~Started("s1")
       /\ StartSyncBegin("s1", SheetOf["s1"])
    \/ /\ OtherOps < MaxOtherOps
       /\ \A c \in DOMAIN calls : calls[c].store # "s2"
       /\ StartSyncBegin("s2", SheetOf["s2"])
    \/ \E c \in DOMAIN calls : StartSyncCreate(c)
    \/ \E c \in DOMAIN calls : StartSyncLaunch(c)
    \/ StopActions({"s2"}, MaxOtherOps - (OtherOps - nStops))
    \/ LoopActions

SpecStores == Init /\ [][NextStores]_vars

\* -------------------- performSync: the client calls made for a row of the sheet
\* the steps of performSync that await a client call made for the row
RowCallPcs == {"find", "update", "writeback"}

\* row.variantPrice of the row of each SKU, in cents
RowPrice == [A |-> 1000, B |-> 550, C |-> 1234]

\* the arguments of the row's call: findVariantBySku(row.sku),
\* updateVariantPrice(variant.id, row.variantPrice, ...) and
\* updateVariantId(..., row.row, variant.id)
RowCallArgs(l) ==
    LET sku == l.rows[l.i] IN
    CASE l.pc = "find" -> <<sku>>
      [] l.pc = "update" -> <<findVariantBySku(sku), RowPrice[sku]>>
      [] l.pc = "writeback" -> <<l.i + 1, findVariantBySku(sku)>>

\* the call loop s has made for the step it is at
RowCallOf(s) ==
    {c \in DOMAIN rowCalls : /\ rowCalls[c].session = s
                             /\ rowCalls[c].i = loops[s].i
                             /\ rowCalls[c].method = loops[s].pc}

\* the loop calls the client method of its step and suspends at the await
RowCall(s) ==
    /\ loops[s].pc \in RowCallPcs
    /\ RowCallOf(s) = {}
    /\ rowCalls' = Append(rowCalls,
            [session |-> s, i |-> loops[s].i, method |-> loops[s].pc,
             args |-> RowCallArgs(loops[s]), state |-> "issued"])
    /\ UNCHANGED <<call, productsLoaded, cacheVars, writeVars, headerCalls, orchVars,
                   queueVars, sheetVars>>

\* the client method returns
RowCallReturns(c) ==
    /\ rowCalls[c].state = "issued"
    /\ rowCalls' = [rowCalls EXCEPT ![c].state = "returned"]
    /\ UNCHANGED <<call, productsLoaded, cacheVars, writeVars, headerCalls, orchVars,
                   queueVars, sheetVars>>

\* findVariantBySku or updateVariantPrice throws (updateVariantId catches its
\* own errors)
RowCallThrows(c) ==
    /\ rowCalls[c].state = "issued"
    /\ rowCalls[c].method \in {"find", "update"}
    /\ rowCalls' = [rowCalls EXCEPT ![c].state = "threw"]
    /\ UNCHANGED <<call, productsLoaded, cacheVars, writeVars, headerCalls, orchVars,
                   queueVars, sheetVars>>

\* the row calls that threw
RowThrows == Cardinality({c \in DOMAIN rowCalls : rowCalls[c].state = "threw"})

\* (mutant) the loop goes on without awaiting the row's call
RowNotAwaited(s, outcome) == TRUE

\* the loop of session s resumes with the outcome of the call it awaits
RowAwaited(s, outcome) ==
    loops[s].pc \in RowCallPcs => \E c \in RowCallOf(s) : rowCalls[c].state = outcome

\* one run with the calls of each row, stop and clear requests and failing calls
NextRows ==
    \/ /\ nStarts = 0
       /\ StartSyncBegin("s2", SheetOf["s2"])
    \/ \E c \in DOMAIN calls : StartSyncCreate(c)
    \/ \E c \in DOMAIN calls : StartSyncLaunch(c)
    \/ StopActions({"s2"}, MaxRunStops)
    \/ \E s \in DOMAIN loops : RowCall(s)
    \/ \E c \in DOMAIN rowCalls : RowCallReturns(c)
    \/ /\ RowThrows < MaxRunFaults
       /\ \E c \in DOMAIN rowCalls : RowCallThrows(c)
    \/ /\ \A s \in DOMAIN loops : RowAwaited(s, "returned")
       /\ LoopActions
    \/ /\ \A s \in DOMAIN loops : RowAwaited(s, "threw")
       /\ FailureActions(MaxRunFaults)

SpecRows == Init /\ [][NextRows]_vars

\* ------------------------------ stopSync and clearSession with no run active
\* no run is active for the store: the flag is not set, no startSync is in
\* flight, no Run of the store is running and every loop of the store has ended
IdleStore(st) ==
    /\ ~AlreadyRunning(st)
    /\ \A c \in DOMAIN calls : calls[c].store # st
    /\ \A s \in DOMAIN sessions :
          sessions[s].storeId = st
              => sessions[s].status # "running" /\ loops[s].pc = "done"

\* one store's requests where stopSync and clearSession are called only while
\* no run is active for the store; startSync is called at any time
NextIdleStop ==
    \/ StartActions({"s2"}, MaxRuns)
    \/ /\ nStops < MaxRunStops
       /\ IdleStore("s2")
       /\ \E kind \in {"stop", "clear"} : StopSyncCall("s2", kind)
    \/ \E k \in DOMAIN stops : StopGet(k)
    \/ \E k \in DOMAIN stops : StopUpd(k)
    \/ \E k \in DOMAIN stops : StopReturn(k)
    \/ LoopActions

SpecIdleStop == Init /\ [][NextIdleStop]_vars

\* ------------------------------------------------------------------ claims

\* C1: at every instant storage holds at most one Run with status running per
\* store, also when startSync calls for the same store race.
RunningRuns(st) ==
    {s \in DOMAIN sessions : sessions[s].storeId = st /\ sessions[s].status = "running"}

C1_AtMostOneRunning == \A st \in Stores : Cardinality(RunningRuns(st)) <= 1

\* C2: of two startSync calls for the same store, the second issued before the
\* first call's run has ended, the second fails with AlreadyRunning and creates
\* no Run: a call passes the flag test (and goes on to create a Run) only when no
\* earlier call for the store is in flight and every run of the store has ended.
C2_SecondCallRejected ==
    [][\A st \in Stores :
        (nStarts' # nStarts /\ calls'[Len(calls')].store = st)
        => /\ \A c \in DOMAIN calls : calls[c].store # st
           /\ \A s \in DOMAIN sessions : sessions[s].storeId = st => loops[s].pc = "done"]_vars

\* C3: for every store at most one reconciliation loop is handling rows at any
\* time.
RowLoops(st) == {s \in DOMAIN sessions : loops[s].store = st /\ loops[s].pc \in RowPcs}

C3_OneLoopPerStore == \A st \in Stores : Cardinality(RowLoops(st)) <= 1

\* C4: for every Run the persisted counters satisfy processed <= total at every
\* point in time and updated + not_found + error = processed.
C4_CountersConsistent ==
    \A s \in DOMAIN sessions :
        /\ sessions[s].processedSkus <= sessions[s].totalSkus
        /\ sessions[s].updatedSkus + sessions[s].notFoundSkus + sessions[s].errorCount
             = sessions[s].processedSkus

C4_Witness ==
    \E s \in DOMAIN sessions :
        /\ sessions[s].totalSkus = 2
        /\ sessions[s].processedSkus = 2
        /\ sessions[s].errorCount = 1
        /\ sessions[s].notFoundSkus = 1
        /\ sessions[s].updatedSkus = 0

\* C5: a run that a stopSync fell into ends, once the loop and every stop call of
\* its store have finished their writes, with the persisted status stopped.
StopsQuiet(st) == \A k \in DOMAIN stops : stops[k].store # st

C5_StoppedRunEndsStopped ==
    \A s \in DOMAIN sessions :
        (stopReq[s] /\ loops[s].pc = "done" /\ StopsQuiet(sessions[s].storeId))
        => sessions[s].status = "stopped"

\* C6: once a stop or clear request has cleared the flag during a run, the loop
\* leaves the for loop at its next per-row check: it starts no later row.
C6_StopsAtNextCheck ==
    [][\A s \in DOMAIN sessions :
        (/\ stopReq[s]
         /\ loops[s].pc \in {"setTotal", "pause"}
         /\ loops'[s].pc # loops[s].pc)
        => loops'[s].pc = "finalWrite"]_vars

\* C7: the queue executes the operations in the order they were enqueued, each
\* exactly once: what was executed, the item in hand and the pending items are,
\* in this order, the operations 1..enqueued.
InHand == IF drain.pc = "delay" THEN <<drain.item>> ELSE <<>>

C7_FifoExactlyOnce ==
    executed \o InHand \o requestQueue = [i \in 1..enqueued |-> i]

C7_Witness ==
    /\ Len(executed) >= 3
    /\ ~isProcessingQueue
    /\ \A o \in 1..3 : settled[o] \in {"resolved", "rejected"}

\* C8: two consecutive operations of a client start at least queueDelay apart,
\* and an operation starts no earlier than queueDelay after it was dequeued.
C8_MinimumSpacing ==
    /\ \A i \in 1..(Len(startedAt) - 1) :
          startedAt[i + 1] - startedAt[i] >= queueDelay(client)
    /\ drain.pc = "exec" =>
          startedAt[Len(startedAt)] - drain.shifted >= queueDelay(client)

C8_Witness ==
    /\ client = "shopify"
    /\ Len(startedAt) >= 2
    /\ startedAt[1] = ShopifyQueueDelay
    /\ startedAt[2] - startedAt[1] = ShopifyQueueDelay

\* C9: a run with no stop request and no failing call ends completed, with
\* total = number of rows, updated = rows with a variant, not_found = rows
\* without one, error = 0, and one Row Result per row, in row order, of kind
\* success or not_found accordingly.
ExpectedLogs(rows) ==
    [i \in 1..Len(rows) |->
        [sku |-> rows[i],
         status |-> IF rows[i] \in Catalog THEN "success" ELSE "not_found",
         errorMessage |-> ""]]

FoundRows(rows) == {i \in 1..Len(rows) : rows[i] \in Catalog}

C9_RunCompletesWithCounts ==
    \A s \in DOMAIN sessions :
        loops[s].pc = "done" =>
            LET rows == SheetRows[sessions[s].sheetId] IN
            /\ sessions[s].status = "completed"
            /\ sessions[s].totalSkus = Len(rows)
            /\ sessions[s].processedSkus = Len(rows)
            /\ sessions[s].updatedSkus = Cardinality(FoundRows(rows))
            /\ sessions[s].notFoundSkus = Len(rows) - Cardinality(FoundRows(rows))
            /\ sessions[s].errorCount = 0
            /\ logs[s] = ExpectedLogs(rows)

\* C10: when the lookup or the price update of a row throws, the run is not
\* aborted: the loop goes to the row's catch with the message, records exactly
\* one Row Result of kind error carrying it, adds one to the error counter and
\* leaves the updated and not-found counters alone, and then persists and moves
\* to the next row as after any other row.
C10_RowErrorContained ==
    [][\A s \in DOMAIN sessions :
        LET l == loops[s]
            n == loops'[s] IN
        /\ (l.pc \in {"find", "update"} /\ faults' # faults /\ n # l)
              => /\ n = [l EXCEPT !.pc = "logError", !.err = n.err]
                 /\ n.err \in Msgs
                 /\ logs'[s] = logs[s]
                 /\ sessions' = sessions
        /\ (l.pc = "logError" /\ n # l)
              => /\ logs'[s] = Append(logs[s], [sku |-> l.rows[l.i], status |-> "error",
                                                errorMessage |-> l.err])
                 /\ n = [l EXCEPT !.pc = "persist", !.errorCount = @ + 1,
                                  !.processedCount = @ + 1]
        /\ (l.pc = "persist" /\ n # l)
              => /\ n = [l EXCEPT !.pc = "pause"]
                 /\ sessions'[s].errorCount = l.errorCount
                 /\ sessions'[s].status = sessions[s].status
        /\ (l.pc = "pause" /\ n # l)
              => /\ n.i = l.i + 1
                 /\ n.pc \in {"find", "finalWrite"}]_vars

C10_Witness ==
    \E s \in DOMAIN sessions :
        /\ Len(logs[s]) = 2
        /\ logs[s][1] = [sku |-> "A", status |-> "error", errorMessage |-> "e429"]
        /\ logs[s][2].status = "not_found"
        /\ sessions[s].status = "completed"
        /\ sessions[s].errorCount = 1
        /\ sessions[s].updatedSkus = 0

\* C11: when the header update or the row fetch throws, the loop goes to the
\* outer catch with no row handled, its next write sets the status failed, and
\* it then broadcasts one sync_error event carrying the message as the run's
\* only event; the run has no Row Result and no sync_complete event.
C11_SetupFailureFailsRun ==
    [][\A s \in DOMAIN sessions :
        LET l == loops[s]
            n == loops'[s] IN
        /\ (l.pc \in {"header", "getData"} /\ faults' # faults /\ n # l)
              => /\ n.pc = "failWrite"
                 /\ n.err \in {"Failed to update sheet header", "sheet unreadable"}
                 /\ logs'[s] = <<>>
                 /\ events'[s] = <<>>
        /\ (l.pc = "failWrite" /\ n # l)
              => /\ sessions'[s].status = "failed"
                 /\ n.pc = "failDone"
        /\ (l.pc = "failDone" /\ n # l)
              => /\ events'[s] = <<[type |-> "sync_error", sku |-> "", n |-> 0,
                                    info |-> l.err]>>
                 /\ logs'[s] = <<>>
                 /\ sessions'[s].processedSkus = 0
                 /\ n.pc = "done"]_vars

C11_Witness ==
    \E s \in DOMAIN sessions :
        /\ loops[s].pc = "done"
        /\ sessions[s].status = "failed"
        /\ logs[s] = <<>>
        /\ events[s] = <<[type |-> "sync_error", sku |-> "", n |-> 0,
                          info |-> "sheet unreadable"]>>

StartSyncThrows ==
    \/ refused' # refused
    \/ \E c \in DOMAIN calls : calls[c].pc = "loading" /\ calls' = RemoveAt(calls, c)

C13_RefusedStartMutatesNothing ==
    [][StartSyncThrows
         => UNCHANGED <<activeSyncs, sessions, logs, events, cleared, loops>>]_vars

C13_Witness ==
    /\ <<"s1", "AlreadyRunning">> \in refused
    /\ <<"s1", "NotFound">> \in refused
    /\ Len(sessions) = 1
    /\ sessions[1].storeId = "s1"
    /\ loops[1].pc = "find"

\* C14: getSheetData includes a data row if and only if its column-A SKU is
\* non-empty after trimming and its parsed column-B price is greater than zero,
\* whether or not the row has a compare-at cell.
SkuAndPriceValid(row) ==
    /\ Trim(Cell(row, 1)) # <<>>
    /\ GreaterThanZero(ParsePrice(Cell(row, 2)))

C14_RowIncludedIffValid ==
    sheetRead =>
        \A j \in 2..Len(sheetValues) :
            (\E d \in DOMAIN sheetData : sheetData[d].row = j)
                <=> SkuAndPriceValid(sheetValues[j])

\* C15: a Run's status is finalized once: when it holds a terminal status
\* (completed, failed or stopped), no later write of stopSync, clearSession or
\* the loop changes it to another status.
TerminalStatuses == {"completed", "failed", "stopped"}

C15_FinalizedOnce ==
    [][\A s \in DOMAIN sessions :
        sessions[s].status \in TerminalStatuses
        => sessions'[s].status = sessions[s].status]_vars

\* C16: a startSync that passes its checks creates exactly one new Run, with
\* status running and zero counters, and leaves the other Runs alone; when it
\* returns the id, the store's flag is set and the new run's loop has been
\* launched but is only at its first await: it has handled no row, written no
\* Row Result, broadcast no event and made no final write.
C16_StartReturnsBeforeLoop ==
    [][\A c \in DOMAIN calls :
        /\ (calls[c].pc = "loading" /\ Len(calls') = Len(calls) /\ calls'[c].pc = "creating")
              => /\ Len(sessions') = Len(sessions) + 1
                 /\ SubSeq(sessions', 1, Len(sessions)) = sessions
                 /\ sessions'[Len(sessions')] = NewSession(calls[c].store, calls[c].sheet)
                 /\ calls'[c].sid = Len(sessions')
                 /\ loops'[Len(sessions')].pc = "none"
        /\ (calls[c].pc = "creating" /\ calls' = RemoveAt(calls, c))
              => LET id == calls[c].sid IN
                 /\ Len(sessions') = Len(sessions)
                 /\ activeSyncs'[calls[c].store] = "true"
                 /\ loops[id].pc = "none"
                 /\ loops'[id].pc = "header"
                 /\ loops'[id].final = ""
                 /\ logs'[id] = <<>>
                 /\ events'[id] = <<>>
                 /\ sessions'[id].processedSkus = 0]_vars

C16_Witness ==
    /\ calls = <<>>
    /\ Len(sessions) = 1
    /\ sessions[1].status = "running"
    /\ activeSyncs["s2"] = "true"
    /\ loops[1].pc = "header"
    /\ logs[1] = <<>>

\* C17: a loop finalizes its run as stopped only if a stopSync or clearSession
\* request for the store was issued during that run.
C17_StoppedOnlyOnRequest ==
    \A s \in DOMAIN sessions : loops[s].final = "stopped" => stopReq[s]

\* C18: the events of a run are broadcast in row order: the run's progress and
\* log events alternate, the k-th pair belongs to the k-th row of the sheet, the
\* progress event carries that row's SKU and the number of rows processed
\* before it, and the pair precedes every event of a later row and the run's
\* terminal event.
RowEvents(s) ==
    SelectSeq(events[s], LAMBDA e : e.type \in {"sync_progress", "sync_log"})

C18_EventsInRowOrder ==
    \A s \in DOMAIN sessions :
        LET ev == RowEvents(s)
            rows == loops[s].rows IN
        /\ Len(ev) <= 2 * Len(rows)
        /\ SubSeq(events[s], 1, Len(ev)) = ev
        /\ \A k \in 1..Len(ev) :
              LET r == (k + 1) \div 2 IN
              /\ ev[k].sku = rows[r]
              /\ IF k % 2 = 1
                 THEN ev[k].type = "sync_progress" /\ ev[k].n = r - 1
                 ELSE ev[k].type = "sync_log"

C18_Witness ==
    \E s \in DOMAIN sessions :
        /\ Len(events[s]) = 5
        /\ events[s][1] = [type |-> "sync_progress", sku |-> "A", n |-> 0, info |-> ""]
        /\ events[s][2].type = "sync_log" /\ events[s][2].sku = "A"
        /\ events[s][3] = [type |-> "sync_progress", sku |-> "B", n |-> 1, info |-> ""]
        /\ events[s][4].type = "sync_log" /\ events[s][4].sku = "B"
        /\ events[s][5].type = "sync_complete"

\* C19: a loop broadcasts no terminal event before it ends and exactly one when
\* it ends, as the last event of its run: sync_complete when the loop wrote the
\* final status completed or stopped, sync_error when it wrote failed.
TerminalEvents(s) ==
    SelectSeq(events[s], LAMBDA e : e.type \in {"sync_complete", "sync_error"})

CountKind(s, kind) == Cardinality({k \in DOMAIN logs[s] : logs[s][k].status = kind})

MidRowPcs == {"writeback", "persist"}

C21_WritebackFailureIgnored ==
    [][\A s \in DOMAIN sessions :
        LET l == loops[s]
            n == loops'[s] IN
        (l.pc = "writeback" /\ faults' # faults /\ n # l)
            => /\ n = [l EXCEPT !.pc = "persist", !.updatedCount = @ + 1,
                                !.processedCount = @ + 1]
               /\ logs'[s] = logs[s]
               /\ logs[s][Len(logs[s])] = [sku |-> l.rows[l.i], status |-> "success",
                                            errorMessage |-> ""]
               /\ events'[s] = Append(events[s], [type |-> "sync_log", sku |-> l.rows[l.i],
                                                   n |-> 0, info |-> "success"])
               /\ sessions' = sessions]_vars

C21_Witness ==
    \E s \in DOMAIN sessions :
        /\ faults = 1
        /\ loops[s].pc = "done"
        /\ loops[s].final = "completed"
        /\ sessions[s].updatedSkus = 1
        /\ sessions[s].notFoundSkus = 1
        /\ sessions[s].errorCount = 0
        /\ sessions[s].processedSkus = 2
        /\ logs[s][1].status = "success"

\* C22: at most one drain loop of a client is active at any time, and it is
\* active exactly while isProcessingQueue is set; an enqueue made while a
\* drain is in progress only appends to the queue: it starts no drain and
\* leaves the running drain and the operation in hand as they are.
C22_SingleDrain ==
    /\ [](/\ activeDrains <= 1
          /\ isProcessingQueue <=> activeDrains = 1
          /\ drain.pc # "idle" <=> activeDrains = 1)
    /\ [][(enqueued' # enqueued /\ isProcessingQueue)
            => /\ requestQueue' = Append(requestQueue, enqueued')
               /\ drain' = drain
               /\ activeDrains' = activeDrains
               /\ executed' = executed]_vars

C22_Witness ==
    /\ drain.pc = "exec"
    /\ drain.item = 1
    /\ requestQueue = <<2, 3>>
    /\ activeDrains = 1

\* C23: when the operation in hand fails, its own promise and no other is
\* rejected, and the drain goes on: with operations queued behind it the drain
\* takes the oldest of them and keeps the rest, and it ends only on an empty
\* queue; every operation started earlier has been settled.
C23_FailureDoesNotStopDrain ==
    /\ [][(drain.pc = "exec" /\ settled'[drain.item] = "rejected")
            => /\ \A o \in 1..MaxOps : o # drain.item => settled'[o] = settled[o]
               /\ IF requestQueue # <<>>
                  THEN /\ isProcessingQueue'
                       /\ drain'.pc = "delay"
                       /\ drain'.item = Head(requestQueue)
                       /\ requestQueue' = Tail(requestQueue)
                  ELSE /\ ~isProcessingQueue'
                       /\ requestQueue' = <<>>]_vars
    /\ [](\A k \in 1..Len(executed) :
             (k < Len(executed) \/ drain.pc # "exec")
             => settled[executed[k]] \in {"resolved", "rejected"})

C23_Witness ==
    /\ executed = <<1, 2, 3>>
    /\ settled[1] = "rejected"
    /\ settled[2] = "resolved"
    /\ settled[3] = "rejected"
    /\ ~isProcessingQueue

\* C24: every operation enqueued is eventually executed and its promise
\* settled, provided timers fire and every started operation returns or
\* throws; and whenever no drain is active the queue is empty.
C24_EveryOperationSettles ==
    /\ \A o \in 1..MaxOps :
          (settled[o] = "pending")
             ~> (settled[o] \in {"resolved", "rejected"}
                 /\ \E k \in 1..Len(executed) : executed[k] = o)
    /\ [](~isProcessingQueue => requestQueue = <<>>)

C24_Witness ==
    /\ enqueued = MaxOps
    /\ \A o \in 1..MaxOps : settled[o] = "resolved"
    /\ Len(executed) = MaxOps
    /\ requestQueue = <<>>
    /\ drain = Idle
    /\ now > MaxTime


\* C25: while a run is in progress, the request queue of each of the run's two
\* clients holds at most one operation, pending in requestQueue or taken by the
\* drain and not yet settled: the loop makes its client calls one at a time and
\* awaits each, and a client method awaits each of its requests.
PendingOrExecuting == Len(requestQueue) + (IF drain.pc = "idle" THEN 0 ELSE 1)

C25_AtMostOneOperation == PendingOrExecuting <= 1

\* the run's last request is in hand after all earlier ones were settled
C25_Witness ==
    /\ enqueued = MaxOps
    /\ drain.pc = "exec"
    /\ drain.item = MaxOps
    /\ \A o \in 1..(MaxOps - 1) : settled[o] \in {"resolved", "rejected"}
    /\ \E s \in DOMAIN loops : loops[s].pc \in ClientPcs(client)


\* the shop's complete product listing, as product objects
Listing == ProductsFrom(1, Len(shop))

\* the findVariantBySku calls that have returned a result
Returned == {c \in DOMAIN finds : finds[c].pc = "done"}

\* C26 (as stated): on one catalog client only the first findVariantBySku call
\* requests products pages, and every later call scans the product set the first
\* call scanned.
C26_OnlyFirstCallPaginates ==
    /\ \A k \in DOMAIN fetched : fetched[k].call = 1
    /\ \A c \in Returned : 1 \in Returned /\ finds[c].scanned = finds[1].scanned

\* the requests of one load are pages 1, 2, ... in order, each one after a full page
PagesInOrder ==
    \A k \in DOMAIN fetched :
        IF fetched[k].page = 1
        THEN k = 1 \/ fetched[k - 1].call # fetched[k].call
        ELSE /\ k > 1
             /\ fetched[k - 1] = [call |-> fetched[k].call, page |-> fetched[k].page - 1]
             /\ Len(ProductsPage(fetched[k].page - 1)) = PageSize

\* a load that has returned stopped at the first page that was not full
StoppedAtShortPage ==
    \A c \in DOMAIN finds :
        (finds[c].pc \in {"scan", "done"} /\ \E k \in DOMAIN fetched : fetched[k].call = c)
            => /\ Len(ProductsPage(finds[c].page)) < PageSize
               /\ \A p \in 1..(finds[c].page - 1) : Len(ProductsPage(p)) = PageSize

\* C26 (amended): calls made one after the other.  A call requests pages only while
\* no call before it has completed the load (every earlier call threw); a load takes
\* pages 1, 2, ... in order and stops at the first page that is not full.  Once a load
\* has completed, the cache is the complete listing, no call requests a page any more,
\* and the cache is never changed again; every call that returns has scanned it.
C26_PaginatesUntilLoaded ==
    /\ [](/\ PagesInOrder
          /\ StoppedAtShortPage
          /\ \A k \in DOMAIN fetched :
                \A c \in 1..(fetched[k].call - 1) : finds[c].pc = "threw"
          /\ productsLoaded => allProducts = Listing
          /\ \A c \in Returned : finds[c].scanned = Listing)
    /\ [][productsLoaded =>
            /\ productsLoaded'
            /\ allProducts' = allProducts
            /\ fetched' = fetched]_vars

\* the first call loaded a listing of more than one page, the second call has
\* returned without a request of its own
C26_Witness ==
    /\ Len(finds) = 2
    /\ finds[1].pc = "done"
    /\ finds[2].pc = "done"
    /\ Len(fetched) >= 2
    /\ \A k \in DOMAIN fetched : fetched[k].call = 1
    /\ finds[2].scanned = Listing
    /\ Len(Listing) >= PageSize

\* C27: when findVariantBySku calls overlap before the products are loaded, the
\* listing is paginated once (no page is requested twice) and every call that
\* returns has scanned the complete listing.
C27_OverlappingCallsLoadOnce ==
    /\ \A k1, k2 \in DOMAIN fetched :
          fetched[k1].page = fetched[k2].page => k1 = k2
    /\ \A c \in Returned : finds[c].scanned = Listing

\* the (product, variant) positions of the variants of S with the given SKU
Matches(S, sku) ==
    {m \in (DOMAIN S) \X (1..3) : m[2] \in DOMAIN S[m[1]].variants
                                  /\ S[m[1]].variants[m[2]] = sku}

\* C28: findVariantBySku(sku) returns the first variant with exactly that SKU, in the
\* order of the products of the cache and of the variants in each product, and
\* returns null if and only if no variant of the cache has the SKU.
C28_FirstExactMatch ==
    \A c \in Returned :
        LET S == finds[c].scanned
            r == finds[c].result
            M == Matches(S, finds[c].sku)
        IN /\ r = Null <=> M = {}
           /\ r # Null =>
                \E m \in M :
                    /\ r = [id |-> <<S[m[1]].id, m[2]>>, sku |-> finds[c].sku,
                            product_id |-> S[m[1]].id]
                    /\ \A m2 \in M : m[1] < m2[1] \/ (m[1] = m2[1] /\ m[2] <= m2[2])

\* "A" was searched where the first product has it as its second variant, after a
\* variant "a", and the next product has it twice
C28_Witness ==
    \E c \in Returned :
        /\ finds[c].sku = "A"
        /\ Len(shop) >= 2
        /\ shop[1] = <<"a", "A">>
        /\ shop[2] = <<"A", "A">>
        /\ finds[c].result = [id |-> <<1, 2>>, sku |-> "A", product_id |-> 1]


\* C29: the rows getSheetData returns are in spreadsheet order, none of them is
\* row 1, and each carries the 1-based position of the sheet row it was parsed
\* from, also when rows before it were dropped; a write-back for a returned row
\* changes column D of that sheet row and nothing else.
C29_RowsKeepTheirPosition ==
    /\ [](sheetRead =>
            /\ \A k \in DOMAIN sheetData :
                  /\ sheetData[k].row \in 2..Len(sheetValues)
                  /\ RowKept(sheetValues[sheetData[k].row])
                  /\ sheetData[k].sku = Trim(sheetValues[sheetData[k].row][1])
                  /\ sheetData[k].variantPrice = ParsePrice(sheetValues[sheetData[k].row][2])
            /\ \A k1, k2 \in DOMAIN sheetData :
                  k1 < k2 => sheetData[k1].row < sheetData[k2].row)
    /\ [][sheetValues' # sheetValues =>
            \E k \in DOMAIN sheetData :
                LET r == sheetData[k].row
                IN /\ r \in DOMAIN sheetValues
                   /\ DOMAIN sheetValues' = DOMAIN sheetValues
                   /\ \A j \in DOMAIN sheetValues : j # r => sheetValues'[j] = sheetValues[j]
                   /\ Len(sheetValues'[r]) >= 4
                   /\ SubSeq(sheetValues'[r], 1, 3) = SubSeq(sheetValues[r], 1, 3)
                   /\ sheetValues'[r][4] = VariantId
                   /\ Trim(sheetValues[r][1]) = sheetData[k].sku]_vars

\* row 1 looks like a data row, row 2 was dropped, and the id of the only row
\* returned was written to D3
C29_Witness ==
    /\ sheetRead
    /\ Len(sheetValues) = 3
    /\ RowKept(sheetValues[1])
    /\ ~RowKept(sheetValues[2])
    /\ Len(sheetData) = 1
    /\ sheetData[1].row = 3
    /\ Len(sheetValues[3]) = 4
    /\ sheetValues[3][4] = VariantId


\* C30: the body of updateVariantPrice's request has the field compare_at_price if
\* and only if the caller passed a compareAtPrice, and then it is that number
\* with two decimals; when none was passed the field is absent and the write
\* leaves the variant's compare-at value on the shop's side as it was.
C30_CompareAtOnlyIfProvided ==
    /\ [](lastUpdate # NoUpdate =>
            /\ ("compare_at_price" \in DOMAIN lastUpdate.body)
                  <=> lastUpdate.compareAtPrice # <<>>
            /\ lastUpdate.compareAtPrice # <<>> =>
                  lastUpdate.body.compare_at_price = toFixed2(lastUpdate.compareAtPrice[1])
            /\ lastUpdate.body.price = toFixed2(lastUpdate.price))
    /\ [][(lastUpdate' # lastUpdate /\ lastUpdate'.compareAtPrice = <<>>) =>
            \A v \in Variants :
                remote'[v].compare_at_price = remote[v].compare_at_price]_vars

\* a variant whose compare-at value was written as 20.00 has had its price
\* updated by a call without compareAtPrice, and kept the value
C30_Witness ==
    /\ lastUpdate.variantId = "v1"
    /\ lastUpdate.compareAtPrice = <<>>
    /\ lastUpdate.body = [id |-> "v1", price |-> <<"1", "2", ".", "3", "4">>]
    /\ remote["v1"] = [price |-> <<"1", "2", ".", "3", "4">>,
                       compare_at_price |-> <<"2", "0", ".", "0", "0">>]


\* the rows getSheetData returned that the last price update may have been issued for
RowsOfLastUpdate ==
    {k \in DOMAIN sheetData :
        /\ lastUpdate.price = sheetData[k].variantPrice
        /\ lastUpdate.compareAtPrice = <<sheetData[k].compareAtPrice>>}

ZeroFixed == <<"0", ".", "0", "0">>

\* C31: every price update the loop issues has the field compare_at_price in its
\* body; for a row whose compare-at cell is empty the field is 0.00, and the
\* variant's compare-at price on the shop's side becomes 0.00.
C31_LoopAlwaysSendsCompareAt ==
    lastUpdate # NoUpdate =>
        /\ "compare_at_price" \in DOMAIN lastUpdate.body
        /\ RowsOfLastUpdate # {}
        /\ \A k \in RowsOfLastUpdate :
              /\ lastUpdate.body.price = toFixed2(ParsePrice(sheetValues[sheetData[k].row][2]))
              /\ sheetValues[sheetData[k].row][3] = <<>> =>
                    /\ lastUpdate.body.compare_at_price = ZeroFixed
                    /\ remote[lastUpdate.variantId].compare_at_price = ZeroFixed

\* a row with an empty compare-at cell (and a variant id in column D) was updated
C31_Witness ==
    /\ lastUpdate # NoUpdate
    /\ Len(sheetData) = 1
    /\ sheetValues[sheetData[1].row][3] = <<>>
    /\ Len(sheetValues[sheetData[1].row]) = 4
    /\ lastUpdate.body.compare_at_price = ZeroFixed
    /\ remote[lastUpdate.variantId].compare_at_price = ZeroFixed


\* an updateSheetHeader call has returned without throwing
HeaderCallSucceeded == \E c \in DOMAIN headerCalls : headerCalls[c].pc = "done"

\* C32: updateSheetHeader writes D1 only when the cell it read is not exactly ID;
\* once a call has succeeded D1 holds ID, and every later call reads once, writes
\* nothing and leaves the sheet as it is.
C32_HeaderIdempotent ==
    /\ [](/\ \A c \in DOMAIN headerCalls :
                /\ (headerCalls[c].wrote \/ headerCalls[c].pc = "update")
                      => headerCalls[c].seen # Marker
                /\ headerCalls[c].pc = "done"
                      => (headerCalls[c].wrote <=> headerCalls[c].seen # Marker)
          /\ HeaderCallSucceeded => HeaderValue(sheetValues) = Marker
          /\ \A c1, c2 \in DOMAIN headerCalls :
                (c1 < c2 /\ headerCalls[c1].pc = "done")
                    => /\ headerCalls[c2].pc \in {"get", "done", "threw"}
                       /\ ~headerCalls[c2].wrote
                       /\ headerCalls[c2].pc = "done" => headerCalls[c2].seen = Marker)
    /\ [][HeaderCallSucceeded => sheetValues' = sheetValues]_vars

\* D1 held "id": the first call wrote the marker, the second call read it and
\* returned without a write
C32_Witness ==
    /\ Len(headerCalls) >= 2
    /\ headerCalls[1] = [pc |-> "done", seen |-> <<"i", "d">>, wrote |-> TRUE]
    /\ headerCalls[2] = [pc |-> "done", seen |-> Marker, wrote |-> FALSE]
    /\ HeaderValue(sheetValues) = Marker


\* C33: once a stopSync for the store has returned, and with no startSync called
\* since the stopSync call, the store's running flag is cleared, no Run of the
\* store is running in storage, and getSyncStatus reports no active run.
C33_NoActiveRunAfterStop ==
    StopReturned =>
        /\ ~Truthy(activeSyncs["s2"])
        /\ getSyncStatus(sessions, "s2").sessionId = 0


\* what a step of a stopSync(storeId) call does to the flag and to storage
\* (from the code of stopSync): the call sets the flag to false; the answer of
\* getCurrentSyncSession changes nothing; the write sets the status of the row
\* that was found to stopped; nothing else is touched
StopSyncEffect(k) ==
    IF k = 0
    THEN /\ activeSyncs' = [activeSyncs EXCEPT !["s2"] = "false"]
         /\ sessions' = sessions
    ELSE /\ activeSyncs' = activeSyncs
         /\ IF stops[k].pc = "upd"
            THEN sessions' = [sessions EXCEPT ![stops[k].target].status = "stopped"]
            ELSE sessions' = sessions
         /\ stops[k].pc = "get" =>
               IF getCurrentSyncSession(sessions, "s2") = 0
               THEN stops' = RemoveAt(stops, k)
               ELSE stops'[k].target = getCurrentSyncSession(sessions, "s2")

\* the clearSession call that takes the step: 0 for a new call
SteppingCall ==
    IF Len(stops') > Len(stops) THEN 0
    ELSE CHOOSE k \in DOMAIN stops :
            \/ stops' = RemoveAt(stops, k)
            \/ Len(stops') = Len(stops) /\ stops'[k] # stops[k]

\* C34: every step of a clearSession call changes the running flag and storage
\* exactly as the same step of stopSync does, and every clearSession call that
\* has returned has broadcast exactly one sync_complete for its store, with or
\* without an active run.
C34_ClearIsStopPlusBroadcast ==
    /\ [](/\ cleared["s2"] = nStops - Len(stops)
          /\ cleared["s1"] = 0)
    /\ [][stops' # stops => StopSyncEffect(SteppingCall)]_vars

\* a clearSession call found the store's Run running, wrote it stopped and
\* broadcast its sync_complete
C34_Witness ==
    /\ nStops = 1
    /\ stops = <<>>
    /\ cleared["s2"] = 1
    /\ Len(sessions) = 1
    /\ stopReq[1]
    /\ activeSyncs["s2"] # "true"
    /\ sessions[1].status = "stopped"


\* the step is one of a startSync, stopSync or clearSession call for store st, or
\* of the loop of one of the store's runs
StepOf(st) ==
    \/ SelectSeq(calls', LAMBDA c : c.store = st) # SelectSeq(calls, LAMBDA c : c.store = st)
    \/ SelectSeq(stops', LAMBDA k : k.store = st) # SelectSeq(stops, LAMBDA k : k.store = st)
    \/ {r \in refused' : r[1] = st} # {r \in refused : r[1] = st}
    \/ \E s \in DOMAIN loops : loops[s].store = st /\ loops'[s] # loops[s]

\* the store's flag, its Runs and their loops are as they were, and no Run was
\* created for it
Untouched(st) ==
    /\ activeSyncs'[st] = activeSyncs[st]
    /\ \A s \in DOMAIN sessions :
          sessions[s].storeId = st =>
              /\ sessions'[s] = sessions[s]
              /\ loops'[s] = loops[s]
              /\ logs'[s] = logs[s]
    /\ \A s \in DOMAIN sessions' : s \notin DOMAIN sessions => sessions'[s].storeId # st

\* C35: a step made for one store (by startSync, stopSync, clearSession or the
\* loop of one of its runs) leaves every other store's running flag, Runs and
\* loops as they were.
C35_OtherStoresUntouched ==
    [][\A st \in Stores : StepOf(st) \/ Untouched(st)]_vars

\* store s2's run was stopped by a request while store s1's run went through all
\* its rows and completed
C35_Witness ==
    \E a, b \in DOMAIN sessions :
        /\ sessions[a].storeId = "s1"
        /\ sessions[b].storeId = "s2"
        /\ stopReq[b]
        /\ loops[b].pc = "done"
        /\ loops[b].final = "stopped"
        /\ loops[a].pc = "done"
        /\ loops[a].final = "completed"
        /\ loops[a].processedCount = Len(SheetRows["g1"])
        /\ sessions[a].status = "completed"


\* C36: a Run whose persisted status is completed has processed = total = the
\* number of rows of its sheet and one Row Result for each of these rows, in
\* row order; a Run whose loop has ended with fewer rows processed than the
\* sheet has holds the status stopped or failed.
RunTotal(s) == Len(SheetRows[sessions[s].sheetId])

CallsOfRow(s, k, method) ==
    {c \in DOMAIN rowCalls : /\ rowCalls[c].session = s
                             /\ rowCalls[c].i = k
                             /\ rowCalls[c].method = method}

C37_SuccessOnlyAfterUpdate ==
    \A s \in DOMAIN logs : \A k \in DOMAIN logs[s] :
        LET sku == logs[s][k].sku IN
        /\ logs[s][k].status = "success"
              => /\ sku \in Catalog
                 /\ \E f \in CallsOfRow(s, k, "find"), u \in CallsOfRow(s, k, "update") :
                       /\ f < u
                       /\ rowCalls[f].args = <<sku>>
                       /\ rowCalls[f].state = "returned"
                       /\ rowCalls[u].args = <<findVariantBySku(sku), RowPrice[sku]>>
                       /\ rowCalls[u].state = "returned"
        /\ logs[s][k].status = "not_found"
              => /\ CallsOfRow(s, k, "update") = {}
                 /\ CallsOfRow(s, k, "writeback") = {}

\* row 1 (SKU A, in the catalog) was logged as success after its update
\* returned, row 2 (SKU B, not in the catalog) as not_found, and the loop has
\* moved on
C37_Witness ==
    \E s \in DOMAIN logs :
        /\ Len(logs[s]) = 2
        /\ logs[s][1].status = "success"
        /\ logs[s][2].status = "not_found"
        /\ loops[s].pc = "done"
        /\ \E u \in CallsOfRow(s, 1, "update") :
              rowCalls[u].args = <<"A", 1000>> /\ rowCalls[u].state = "returned"
        /\ \E w \in CallsOfRow(s, 1, "writeback") : rowCalls[w].state = "returned"


\* C38: a stopSync or clearSession call made while no run is active for its
\* store creates no Run and changes no Run's status in any of its steps, and it
\* leaves the flag in a state that startSync's test lets through: while the
\* store is idle a startSync is not rejected as AlreadyRunning.
C38_IdleStopChangesNothing ==
    /\ [][stops' # stops
            => /\ DOMAIN sessions' = DOMAIN sessions
               /\ \A s \in DOMAIN sessions : sessions'[s].status = sessions[s].status]_vars
    /\ []((\A c \in DOMAIN calls : calls[c].store # "s2")
            /\ (\A s \in DOMAIN sessions : loops[s].pc = "done")
          => ~AlreadyRunning("s2"))

====
